---------------------------- MODULE Spec2Model ----------------------------
(***************************************************************************)
(* Model of the AD9523 clock-generator driver                              *)
(* (drivers/iio/frequency/ad9523.c): the register transaction layer, the   *)
(* clock-source router, the PLL2 divider solver and device bring-up.       *)
(*                                                                         *)
(* Every SPI transfer (ad9523_read / ad9523_write) is one step of the task *)
(* that issues it.  Task 0 is the probe context; tasks 1..NumThreads are   *)
(* user contexts calling the IIO / sysfs / debugfs entry points.           *)
(***************************************************************************)
EXTENDS Integers, Sequences, FiniteSets, TLC

VARIABLES
    pc,         \* pc[t]: position of task t in the function it executes
    call,       \* call[t]: the entry point task t is in (or last left) and its arguments
    loc,        \* loc[t]: the C locals of the running call (ret, reg, out, tmp, i, active_mask)
    result,     \* result[t]: return value of the call task t last completed
    trace,      \* trace[t]: SPI transfers issued by task t's current (or last) call, in order
    ncalls,     \* ncalls[t]: number of calls task t has started
    lock,       \* st->lock: 0 when free, else the task that holds it
    regs,       \* device register file, indexed by the driver's encoded addresses
    vco_out_freq,   \* st->vco_out_freq[AD9523_NUM_CLK_SRC]
    vco_out_map,    \* st->vco_out_map[AD9523_NUM_CHAN_ALT_CLK_SRC]
    is_enabled,     \* st->output[ch].is_enabled
    pdata,      \* the platform data built by ad9523_parse_dt
    calc_ret,   \* what ad9523_calc_dividers returned to ad9523_parse_dt ("none": not called)
    oob,        \* TRUE once vco_out_map[] was indexed outside 0..9
    first       \* history: what the first of two identical ad9523_write_raw calls left

vars == <<pc, call, loc, result, trace, ncalls, lock, regs, vco_out_freq,
          vco_out_map, is_enabled, pdata, calc_ret, oob, first>>

-----------------------------------------------------------------------------
(* Bounds of the model                                                     *)

\* calls each user task may start
MaxCalls == 2
MaxConcCalls == 1
\* user tasks of the concurrent specification
NumThreads == 2

-----------------------------------------------------------------------------
(* Integer helpers standing for C operators                                *)

Pow2(n) == 2 ^ n

\* x >> n and x & ((1 << w) - 1) on non-negative ints
Shr(x, n) == x \div Pow2(n)
Low(x, w) == x % Pow2(w)

\* bit n of x
Bit(x, n) == Shr(x, n) % 2

\* x | (1 << n), x & ~(1 << n)
SetBit(x, n) == IF Bit(x, n) = 1 THEN x ELSE x + Pow2(n)
ClrBit(x, n) == IF Bit(x, n) = 1 THEN x - Pow2(n) ELSE x

RECURSIVE BitOr(_, _)
BitOr(a, b) ==
    IF a = 0 THEN b
    ELSE IF b = 0 THEN a
    ELSE (IF a % 2 = 1 \/ b % 2 = 1 THEN 1 ELSE 0) + 2 * BitOr(a \div 2, b \div 2)

\* replace the w-bit field at bit position p of x by f (f already masked)
SetField(x, p, w, f) == x - Low(Shr(x, p), w) * Pow2(p) + f * Pow2(p)

Abs(x) == IF x < 0 THEN -x ELSE x
Min(a, b) == IF a < b THEN a ELSE b
Max(a, b) == IF a > b THEN a ELSE b

\* kernel clamp(v, lo, hi)
Clamp(v, lo, hi) == Min(Max(v, lo), hi)

\* kernel DIV_ROUND_CLOSEST(x, d) for an unsigned x and d > 0
DivRoundClosest(x, d) == (x + d \div 2) \div d

\* C integer division (truncating) for a possibly negative numerator, d > 0
CDiv(x, d) == IF x >= 0 THEN x \div d ELSE -((-x) \div d)

\* C remainder: the sign of the numerator
CRem(x, d) == x - d * CDiv(x, d)

\* floor(a * b / c) without forming a * b (which exceeds the checker's integers)
MulDivFloor(a, b, c) == (a \div c) * b + ((a % c) * b) \div c

-----------------------------------------------------------------------------
(* Register map.  An address carries the transfer length (1..3 bytes) in   *)
(* bits 16..17; the offsets are below 2^16, so "|" is written "+".         *)

AD9523_R1B == 1 * 65536
AD9523_R2B == 2 * 65536
AD9523_R3B == 3 * 65536
AD9523_TRANSF_LEN(x) == x \div 65536

AD9523_SERIAL_PORT_CONFIG == AD9523_R1B + 0
AD9523_READBACK_CTRL == AD9523_R1B + 4
AD9523_EEPROM_CUSTOMER_VERSION_ID == AD9523_R2B + 6
AD9523_PLL1_REF_A_DIVIDER == AD9523_R2B + 17
AD9523_PLL1_REF_B_DIVIDER == AD9523_R2B + 19
AD9523_PLL1_FEEDBACK_DIVIDER == AD9523_R2B + 23
AD9523_PLL1_CHARGE_PUMP_CTRL == AD9523_R2B + 25
AD9523_PLL1_INPUT_RECEIVERS_CTRL == AD9523_R1B + 26
AD9523_PLL1_REF_CTRL == AD9523_R1B + 27
AD9523_PLL1_MISC_CTRL == AD9523_R1B + 28
AD9523_PLL1_LOOP_FILTER_CTRL == AD9523_R1B + 29
AD9523_PLL2_CHARGE_PUMP == AD9523_R1B + 240
AD9523_PLL2_FEEDBACK_DIVIDER_AB == AD9523_R1B + 241
AD9523_PLL2_CTRL == AD9523_R1B + 242
AD9523_PLL2_VCO_CTRL == AD9523_R1B + 243
AD9523_PLL2_VCO_DIVIDER == AD9523_R1B + 244
AD9523_PLL2_LOOP_FILTER_CTRL == AD9523_R2B + 246
AD9523_PLL2_R2_DIVIDER == AD9523_R1B + 247
AD9523_CHANNEL_CLOCK_DIST(ch) == AD9523_R3B + (402 + 3 * ch)
AD9523_PLL1_OUTPUT_CTRL == AD9523_R1B + 442
AD9523_PLL1_OUTPUT_CHANNEL_CTRL == AD9523_R1B + 443
AD9523_READBACK_0 == AD9523_R1B + 556
AD9523_STATUS_SIGNALS == AD9523_R3B + 562
AD9523_POWER_DOWN_CTRL == AD9523_R1B + 563
AD9523_IO_UPDATE == AD9523_R1B + 564
AD9523_EEPROM_DATA_XFER_STATUS == AD9523_R1B + 2816
AD9523_EEPROM_ERROR_READBACK == AD9523_R1B + 2817
AD9523_EEPROM_CTRL1 == AD9523_R1B + 2818
AD9523_EEPROM_CTRL2 == AD9523_R1B + 2819

AD9523_NUM_CHAN == 14
\* faulty variant: every channel has a clock source select
AltClkSrcAllChans == AD9523_NUM_CHAN
\* the channels 0..9 that have a clock source select: the size of
\* st->vco_out_map and the "case 0 ... 3", "case 4 ... 9" bands of
\* ad9523_set_clock_provider and ad9523_vco_out_map
AD9523_NUM_CHAN_ALT_CLK_SRC == 10

\* enum { AD9523_VCO1, AD9523_VCO2, AD9523_VCXO, AD9523_NUM_CLK_SRC }
AD9523_VCO1 == 0
AD9523_VCO2 == 1
AD9523_VCXO == 2
AD9523_NUM_CLK_SRC == 3

AD9523_VCO_FREQ_MIN == 2940000
AD9523_VCO_FREQ_MAX == 3100000

\* bit positions of the single-bit fields
AD9523_CLK_DIST_PWR_DOWN_EN_BIT == 5
AD9523_STATUS_SIGNALS_SYNC_MAN_CTRL_BIT == 16
AD9523_EEPROM_DATA_XFER_IN_PROGRESS_BIT == 0
AD9523_EEPROM_ERROR_READBACK_FAIL_BIT == 0

AD9523_SER_CONF_SDO_ACTIVE == 128
AD9523_SER_CONF_SOFT_RESET == 32
AD9523_READBACK_CTRL_READ_BUFFERED == 1
AD9523_IO_UPDATE_EN == 1
AD9523_EEPROM_CTRL1_EEPROM_WRITE_PROT_DIS == 1
AD9523_EEPROM_CTRL2_REG2EEPROM == 1
AD9523_STATUS_MONITOR_01_PLL12_LOCKED == 770
AD9523_PLL2_VCO_CALIBRATE == 2

\* AD9523_CHANNEL_CLOCK_DIST fields
AD9523_CLK_DIST_DIV_PHASE(x) == Low(x, 6) * Pow2(18)
AD9523_CLK_DIST_DIV_PHASE_REV(r) == Low(Shr(r, 18), 6)
AD9523_CLK_DIST_DIV(x) == ((x - 1) % 1024) * Pow2(8)
AD9523_CLK_DIST_DIV_REV(r) == Low(Shr(r, 8), 10) + 1
AD9523_CLK_DIST_DRIVER_MODE(x) == Low(x, 4)

\* errno values (returned negated)
EIO == 5
EINVAL == 22
ENODEV == 19
ETIMEDOUT == 110

\* enum of the sysfs attribute addresses: AD9523_STAT_* are 0..7
AD9523_SYNC == 8
AD9523_EEPROM == 9

\* enum outp_drv_mode starts with TRISTATE
TRISTATE == 0

\* the sentinel of the SPI read/write verification
SpiVerifyPattern == 44437

-----------------------------------------------------------------------------
(* PLL2 divider solver                                                     *)

\* faulty variant: the four excluded values without the lower limit
pll2_valid_div_NoMin(div) == div \notin {18, 19, 23, 27}

\* faulty variant: the lower limit without the four excluded values
pll2_valid_div_NoSwitch(div) == div >= 16

\* ad9523_pll2_valid_div
ad9523_pll2_valid_div(div) ==
    IF div < 16 THEN FALSE
    ELSE IF div \in {18, 19, 23, 27} THEN FALSE
    ELSE TRUE

\* e1/d1 < e2/d2 for non-negative e and positive d, without forming e * d
FracLess(e1, d1, e2, d2) ==
    LET q1 == e1 \div d1
        q2 == e2 \div d2
    IN  IF q1 # q2 THEN q1 < q2
        ELSE (e1 % d1) * d2 < (e2 % d2) * d1

\* the candidates n/d of a best approximation of num/den: for each
\* denominator the two numerators around num*d/den, capped at maxNum
RationalCandidates(num, den, maxNum, maxDen) ==
    UNION { { <<Min((num * d) \div den, maxNum), d>>,
              <<Min((num * d) \div den + 1, maxNum), d>> } : d \in 1..maxDen }

\* |n/d - num/den| * den, as the fraction  RationalErr / d
RationalErr(c, num, den) == Abs(c[1] * den - num * c[2])

\* rational_best_approximation (lib/math/rational.c): the fraction n/d with
\* n <= maxNum, d <= maxDen closest to num/den, the smallest denominator
\* among equally close ones
rational_best_approximation(num, den, maxNum, maxDen) ==
    LET C == RationalCandidates(num, den, maxNum, maxDen)
        ErrLess(a, b) ==
            FracLess(RationalErr(a, num, den), a[2], RationalErr(b, num, den), b[2])
        Better(a, b) ==
            \/ ErrLess(a, b)
            \/ /\ ~ErrLess(b, a)
               /\ (a[2] < b[2] \/ (a[2] = b[2] /\ a[1] <= b[1]))
    IN  CHOOSE a \in C : \A b \in C : Better(a, b)

\* the loop of ad9523_calc_dividers: halve fpfd, double N and R
RECURSIVE FpfdLoop(_, _, _)
FpfdLoop(fpfd, n, r) ==
    IF fpfd > 259000 \/ ~ad9523_pll2_valid_div(n)
    THEN FpfdLoop(fpfd \div 2, n * 2, r * 2)
    ELSE <<fpfd, n, r>>

\* the VCO divider m tried by the for loop (6: none fits)
CalcM(m_freq) ==
    IF \E m \in 3..5 : AD9523_VCO_FREQ_MIN <= m_freq * m /\ AD9523_VCO_FREQ_MAX >= m_freq * m
    THEN CHOOSE m \in 3..5 :
            /\ AD9523_VCO_FREQ_MIN <= m_freq * m /\ AD9523_VCO_FREQ_MAX >= m_freq * m
            /\ \A k \in 3..(m - 1) :
                  ~(AD9523_VCO_FREQ_MIN <= m_freq * k /\ AD9523_VCO_FREQ_MAX >= m_freq * k)
    ELSE 6

\* ad9523_calc_dividers: [ret |-> 0, r2, m1, m2, a, b, doubler] or [ret |-> -EINVAL]
ad9523_calc_dividers(vcxo_hz, m1_hz, m2_hz) ==
    LET m1_freq == m1_hz \div 1000
        m2_freq == m2_hz \div 1000
        vcxo_freq == vcxo_hz \div 1000
        m_freq == IF m1_freq # 0 THEN m1_freq ELSE m2_freq
        m == CalcM(m_freq)
        vco_freq == m_freq * m
        m2q == vco_freq \div m2_freq
        m1 == IF m1_freq # 0 THEN m ELSE 3
        m2 == IF m1_freq # 0 THEN (IF m2_freq # 0 THEN m2q ELSE 3) ELSE m
        nr0 == rational_best_approximation(vco_freq, vcxo_freq, 255, 31)
        nr1 == rational_best_approximation(vco_freq, vcxo_freq * 2, 255, 31)
        exact == vco_freq = (vcxo_freq * nr0[1]) \div nr0[2]
        useDoubler ==
            /\ ~exact
            /\ Abs(vco_freq \div nr0[1] - vcxo_freq \div nr0[2])
                 > Abs((vco_freq \div nr1[1]) \div 2 - vcxo_freq \div nr1[2])
        nr == IF useDoubler THEN nr1 ELSE nr0
        fpfd == (vcxo_freq * (IF useDoubler THEN 2 ELSE 1)) \div nr[2]
        fin == FpfdLoop(fpfd, nr[1], nr[2])
    IN  IF m = 6 THEN [ret |-> -EINVAL]
        ELSE IF m1_freq # 0 /\ m2_freq # 0 /\ (m2q < 3 \/ m2q > 5 \/ vco_freq % m2_freq > 1)
        THEN [ret |-> -EINVAL]
        ELSE [ret |-> 0, r2 |-> fin[3], m1 |-> m1, m2 |-> m2,
              a |-> fin[2] % 4, b |-> fin[2] \div 4, doubler |-> useDoubler]

-----------------------------------------------------------------------------
(* Tasks, the SPI transport and the device                                 *)

Tasks == 0..NumThreads
Users == 1..NumThreads

\* every address the driver transfers to or from
RegAddrs ==
    { AD9523_SERIAL_PORT_CONFIG, AD9523_READBACK_CTRL, AD9523_EEPROM_CUSTOMER_VERSION_ID,
      AD9523_PLL1_REF_A_DIVIDER, AD9523_PLL1_REF_B_DIVIDER, AD9523_PLL1_FEEDBACK_DIVIDER,
      AD9523_PLL1_CHARGE_PUMP_CTRL, AD9523_PLL1_INPUT_RECEIVERS_CTRL, AD9523_PLL1_REF_CTRL,
      AD9523_PLL1_MISC_CTRL, AD9523_PLL1_LOOP_FILTER_CTRL, AD9523_PLL2_CHARGE_PUMP,
      AD9523_PLL2_FEEDBACK_DIVIDER_AB, AD9523_PLL2_CTRL, AD9523_PLL2_VCO_CTRL,
      AD9523_PLL2_VCO_DIVIDER, AD9523_PLL2_LOOP_FILTER_CTRL, AD9523_PLL2_R2_DIVIDER,
      AD9523_PLL1_OUTPUT_CTRL, AD9523_PLL1_OUTPUT_CHANNEL_CTRL, AD9523_READBACK_0,
      AD9523_STATUS_SIGNALS, AD9523_POWER_DOWN_CTRL, AD9523_IO_UPDATE,
      AD9523_EEPROM_DATA_XFER_STATUS, AD9523_EEPROM_ERROR_READBACK, AD9523_EEPROM_CTRL1,
      AD9523_EEPROM_CTRL2 }
    \cup { AD9523_CHANNEL_CLOCK_DIST(ch) : ch \in 0..(AD9523_NUM_CHAN - 1) }

\* spi_sync_transfer failing: the negative errno the SPI core hands back
TransportErrs == { -EIO, -ETIMEDOUT }

\* values the status registers of the device may show
Readback0Values == { 0, 3, 128 }
XferStatusValues == { 0, 1 }
ErrorReadbackValues == { 0, 1, 2 }

\* what a successful read of addr may return: the register file for the
\* configuration registers, the device's own state for the status registers
\* (the version-id scratch register reads 0 when the device does not answer)
DevReadValues(addr) ==
    CASE addr = AD9523_READBACK_0 -> Readback0Values
      [] addr = AD9523_EEPROM_DATA_XFER_STATUS -> XferStatusValues
      [] addr = AD9523_EEPROM_ERROR_READBACK -> ErrorReadbackValues
      [] addr = AD9523_EEPROM_CUSTOMER_VERSION_ID -> { regs[addr], 0 }
      [] OTHER -> { regs[addr] }

\* ad9523_read: a negative errno, or the low TRANSF_LEN bytes of the register
ReadRets(addr) ==
    TransportErrs \cup { Low(v, 8 * AD9523_TRANSF_LEN(addr)) : v \in DevReadValues(addr) }
ad9523_read(t, addr, ret) ==
    /\ ret \in ReadRets(addr)
    /\ trace' = [trace EXCEPT ![t] = Append(@, [k |-> "R", a |-> addr, v |-> ret, r |-> ret])]

\* ad9523_write: a negative errno and the register untouched, or 0 and the
\* low TRANSF_LEN bytes of val stored
WriteRets == TransportErrs \cup { 0 }
ad9523_write(t, addr, val, ret) ==
    /\ ret \in WriteRets
    /\ regs' = IF ret = 0
               THEN [regs EXCEPT ![addr] = Low(val, 8 * AD9523_TRANSF_LEN(addr))]
               ELSE regs
    /\ trace' = [trace EXCEPT ![t] = Append(@, [k |-> "W", a |-> addr, v |-> val, r |-> ret])]

\* ad9523_io_update
ad9523_io_update(t, ret) == ad9523_write(t, AD9523_IO_UPDATE, AD9523_IO_UPDATE_EN, ret)

LocZero == [ret |-> 0, reg |-> 0, out |-> 0, tmp |-> 0, i |-> 0, active_mask |-> {}]
NoCall == [op |-> "none"]
NoFirst == [state |-> << >>, trace |-> << >>]
Res(r) == [ret |-> r, val |-> 0, val2 |-> 0]

\* task t moves to label l with locals q
Goto(t, l, q) ==
    /\ pc' = [pc EXCEPT ![t] = l]
    /\ loc' = [loc EXCEPT ![t] = q]
    /\ UNCHANGED result

\* task t leaves its entry point with return value r (a record for read_raw)
Return(t, l, r) ==
    /\ pc' = [pc EXCEPT ![t] = l]
    /\ loc' = [loc EXCEPT ![t] = LocZero]
    /\ result' = [result EXCEPT ![t] = r]

\* faulty variant: a lock that does not wait for its holder
mutex_lock_NoWait(t) == lock' = t

\* faulty variant: an unlock that leaves the lock held
mutex_unlock_Keep(t) == lock' = lock

\* mutex_lock(&st->lock) / mutex_unlock(&st->lock)
mutex_lock(t) == lock = 0 /\ lock' = t
mutex_unlock(t) == lock' = 0

-----------------------------------------------------------------------------
(* Device tree, platform data and ad9523_parse_dt                          *)

\* bit-field constants of the registers ad9523_setup programs
AD9523_PLL1_CHARGE_PUMP_TRISTATE == 128
AD9523_PLL1_CHARGE_PUMP_MODE_NORMAL == 768
AD9523_PLL1_BACKLASH_PW_MIN == 0
AD9523_PLL1_REF_TEST_RCV_EN == 128
AD9523_PLL1_REFB_DIFF_RCV_EN == 64
AD9523_PLL1_REFA_DIFF_RCV_EN == 32
AD9523_PLL1_REFB_RCV_EN == 16
AD9523_PLL1_REFA_RCV_EN == 8
AD9523_PLL1_REFA_REFB_PWR_CTRL_EN == 4
AD9523_PLL1_OSC_IN_CMOS_NEG_INP_EN == 2
AD9523_PLL1_OSC_IN_DIFF_EN == 1
AD9523_PLL1_BYPASS_FEEDBACK_DIV_EN == 64
AD9523_PLL1_ZERO_DELAY_MODE_INT == 32
AD9523_PLL1_OSC_IN_PLL_FEEDBACK_EN == 16
AD9523_PLL1_ZD_IN_CMOS_NEG_INP_EN == 8
AD9523_PLL1_ZD_IN_DIFF_EN == 4
AD9523_PLL1_REFB_CMOS_NEG_INP_EN == 2
AD9523_PLL1_REFA_CMOS_NEG_INP_EN == 1
AD9523_PLL1_REFB_INDEP_DIV_CTRL_EN == 128
AD9523_PLL2_CHARGE_PUMP_MODE_NORMAL == 3
AD9523_PLL2_BACKLASH_CTRL_EN == 16
AD9523_PLL2_FREQ_DOUBLER_EN == 32
AD9523_PLL2_VCO_DIV_M1_PWR_DOWN_EN == 4
AD9523_PLL2_VCO_DIV_M2_PWR_DOWN_EN == 64
AD9523_PLL2_LOOP_FILTER_RZERO_BYPASS_EN == 256
AD9523_CLK_DIST_INV_DIV_OUTPUT_EN == 128
AD9523_CLK_DIST_IGNORE_SYNC_EN == 64
AD9523_CLK_DIST_PWR_DOWN_EN == 32
AD9523_CLK_DIST_LOW_PWR_MODE_EN == 16

AD9523_PLL1_CHARGE_PUMP_CURRENT_nA(x) == Low(x \div 500, 7)
AD9523_PLL1_REF_MODE(x) == x * 4
AD9523_PLL1_LOOP_FILTER_RZERO(x) == Low(x, 4)
AD9523_PLL2_CHARGE_PUMP_CURRENT_nA(x) == x \div 3500
AD9523_PLL2_FB_NDIV_A_CNT(x) == Low(x, 2) * 64
AD9523_PLL2_FB_NDIV_B_CNT(x) == Low(x, 6)
AD9523_PLL2_FB_NDIV(a, b) == 4 * b + a
AD9523_PLL2_VCO_DIV_M1(x) == (x - 3) % 4
AD9523_PLL2_VCO_DIV_M2(x) == ((x - 3) % 4) * 16
AD9523_PLL2_LOOP_FILTER_CPOLE1(x) == Low(x, 3)
AD9523_PLL2_LOOP_FILTER_RZERO(x) == Low(x, 3) * 8
AD9523_PLL2_LOOP_FILTER_RPOLE2(x) == Low(x, 3) * 64
AD9523_PLL2_R2_DIVIDER_VAL(x) == Low(x, 5)

\* AD_IFE / AD_IF on a platform-data flag (a count is passed as "# 0")
AD_IFE(c, a, b) == IF c THEN a ELSE b
AD_IF(c, a) == AD_IFE(c, a, 0)

RECURSIVE OrAll(_)
OrAll(q) == IF q = <<>> THEN 0 ELSE BitOr(Head(q), OrAll(Tail(q)))

\* one child node of the device tree (struct ad9523_channel_spec)
ChanSpec(num, div, phase, alt, dis) ==
    [channel_num |-> num, divider_output_invert_en |-> FALSE, sync_ignore_en |-> FALSE,
     low_power_mode_en |-> FALSE, use_alt_clock_src |-> alt, output_dis |-> dis,
     driver_mode |-> 3, divider_phase |-> phase, channel_divider |-> div]

\* the properties every device tree of the model carries
DtBase ==
    [vcxo_freq |-> 122880000, spi3wire |-> TRUE,
     refa_diff_rcv_en |-> TRUE, refb_diff_rcv_en |-> FALSE, zd_in_diff_en |-> TRUE,
     osc_in_diff_en |-> FALSE, refa_cmos_neg_inp_en |-> FALSE, refb_cmos_neg_inp_en |-> FALSE,
     zd_in_cmos_neg_inp_en |-> FALSE, osc_in_cmos_neg_inp_en |-> TRUE,
     refa_r_div |-> 1, refb_r_div |-> 1, pll1_feedback_div |-> 4,
     pll1_charge_pump_current_nA |-> 2000, pll1_loop_filter_rzero |-> 3,
     zero_delay_mode_internal_en |-> TRUE, osc_in_feedback_en |-> FALSE,
     pll1_bypass_en |-> FALSE, ref_mode |-> 4, pll2_charge_pump_current_nA |-> 413000,
     rpole2 |-> 0, rzero |-> 7, cpole1 |-> 2, rzero_bypass_en |-> FALSE]

\* the PLL2 properties and child nodes that differ between device trees:
\* target frequencies (m1_freq, m2_freq) or the raw divider fields
DtPll2(m1f, m2f, a, b, dbl, r2, m1, m2, chans) ==
    [m1_freq |-> m1f, m2_freq |-> m2f, ndiv_a_cnt |-> a, ndiv_b_cnt |-> b,
     freq_doubler_en |-> dbl, r2_div |-> r2, vco_div_m1 |-> m1, vco_div_m2 |-> m2,
     channels |-> chans]

DtChannelsFull ==
    << ChanSpec(0, 8, 0, FALSE, FALSE), ChanSpec(5, 6, 1, TRUE, FALSE),
       ChanSpec(8, 4, 0, FALSE, TRUE), ChanSpec(10, 2, 0, FALSE, FALSE),
       ChanSpec(14, 1, 0, FALSE, FALSE) >>
DtChannelsSmall == << ChanSpec(5, 8, 0, FALSE, FALSE), ChanSpec(14, 1, 0, TRUE, FALSE) >>

\* the device trees the model probes with
DtTrees ==
    { \* target frequencies the solver can meet
      DtPll2(983040000, 737280000, 0, 0, FALSE, 0, 0, 0, DtChannelsFull),
      \* both targets below 1 kHz: zero once divided by 1000
      DtPll2(500, 0, 0, 0, FALSE, 0, 0, 0, DtChannelsSmall),
      \* no VCO divider in 3..5 puts the VCO in range
      DtPll2(500000000, 0, 0, 0, FALSE, 0, 0, 0, DtChannelsSmall),
      \* the second target does not divide the VCO frequency
      DtPll2(983040000, 700000000, 0, 0, FALSE, 0, 0, 0, DtChannelsSmall),
      \* raw divider fields, valid
      DtPll2(0, 0, 0, 6, FALSE, 1, 3, 5, DtChannelsSmall),
      \* raw divider fields, A counter too big for B = 3
      DtPll2(0, 0, 1, 3, FALSE, 1, 3, 3, DtChannelsSmall) }

\* devm_kzalloc'ed platform data
PdataZero ==
    [vcxo_freq |-> 0, spi3wire |-> FALSE,
     refa_diff_rcv_en |-> FALSE, refb_diff_rcv_en |-> FALSE, zd_in_diff_en |-> FALSE,
     osc_in_diff_en |-> FALSE, refa_cmos_neg_inp_en |-> FALSE, refb_cmos_neg_inp_en |-> FALSE,
     zd_in_cmos_neg_inp_en |-> FALSE, osc_in_cmos_neg_inp_en |-> FALSE,
     refa_r_div |-> 0, refb_r_div |-> 0, pll1_feedback_div |-> 0,
     pll1_charge_pump_current_nA |-> 0, pll1_loop_filter_rzero |-> 0,
     zero_delay_mode_internal_en |-> FALSE, osc_in_feedback_en |-> FALSE,
     pll1_bypass_en |-> FALSE, ref_mode |-> 0, pll2_charge_pump_current_nA |-> 0,
     rpole2 |-> 0, rzero |-> 0, cpole1 |-> 0, rzero_bypass_en |-> FALSE,
     pll2_ndiv_a_cnt |-> 0, pll2_ndiv_b_cnt |-> 0, pll2_freq_doubler_en |-> FALSE,
     pll2_r2_div |-> 0, pll2_vco_div_m1 |-> 0, pll2_vco_div_m2 |-> 0,
     channels |-> <<>>]

\* faulty variant: ad9523_parse_dt without its range checks
ParseDtValid_NoCheck(pd) == pd = pd

\* the range checks of ad9523_parse_dt on the PLL2 fields
ParseDtValid(pd) ==
    /\ ~(pd.pll2_ndiv_b_cnt < 3 \/ pd.pll2_ndiv_b_cnt > 63)
    /\ CASE pd.pll2_ndiv_b_cnt = 3 -> ~(pd.pll2_ndiv_a_cnt > 0)
         [] pd.pll2_ndiv_b_cnt = 4 -> ~(pd.pll2_ndiv_a_cnt > 1)
         [] pd.pll2_ndiv_b_cnt \in {5, 6} -> ~(pd.pll2_ndiv_a_cnt > 2)
         [] OTHER -> ~(pd.pll2_ndiv_a_cnt > 3)
    /\ ~(pd.pll2_r2_div < 1 \/ pd.pll2_r2_div > 31)
    /\ ~(pd.pll2_vco_div_m1 < 3 \/ pd.pll2_vco_div_m1 > 5)
    /\ ~(pd.pll2_vco_div_m2 < 3 \/ pd.pll2_vco_div_m2 > 5)

\* the platform data ad9523_parse_dt has filled in when it reaches its range
\* checks: the common properties, then either the raw PLL2 fields or what
\* ad9523_calc_dividers stored (nothing when it failed: its return value is
\* not looked at)
ParseDtPdata(dt, calc) ==
    LET common == [f \in DOMAIN PdataZero |->
                     IF f \in DOMAIN DtBase THEN DtBase[f] ELSE PdataZero[f]]
    IN  IF dt.m1_freq = 0 /\ dt.m2_freq = 0
        THEN [common EXCEPT !.pll2_ndiv_a_cnt = dt.ndiv_a_cnt,
                            !.pll2_ndiv_b_cnt = dt.ndiv_b_cnt,
                            !.pll2_freq_doubler_en = dt.freq_doubler_en,
                            !.pll2_r2_div = dt.r2_div,
                            !.pll2_vco_div_m1 = dt.vco_div_m1,
                            !.pll2_vco_div_m2 = dt.vco_div_m2]
        ELSE IF calc.ret = 0
        THEN [common EXCEPT !.pll2_ndiv_a_cnt = calc.a,
                            !.pll2_ndiv_b_cnt = calc.b,
                            !.pll2_freq_doubler_en = calc.doubler,
                            !.pll2_r2_div = calc.r2,
                            !.pll2_vco_div_m1 = calc.m1,
                            !.pll2_vco_div_m2 = calc.m2]
        ELSE common

-----------------------------------------------------------------------------
(* ad9523_probe and ad9523_setup (task 0)                                  *)

\* the writes of ad9523_setup before the SPI read/write verification
SetupHead(pd) ==
    << [a |-> AD9523_SERIAL_PORT_CONFIG,
        v |-> BitOr(AD9523_SER_CONF_SOFT_RESET,
                    IF pd.spi3wire THEN 0 ELSE AD9523_SER_CONF_SDO_ACTIVE)],
       [a |-> AD9523_READBACK_CTRL, v |-> AD9523_READBACK_CTRL_READ_BUFFERED],
       [a |-> AD9523_IO_UPDATE, v |-> AD9523_IO_UPDATE_EN] >>

\* the PLL1 and PLL2 writes of ad9523_setup, in program order
SetupPll(pd) ==
    << [a |-> AD9523_PLL1_REF_A_DIVIDER, v |-> pd.refa_r_div],
       [a |-> AD9523_PLL1_REF_B_DIVIDER, v |-> pd.refb_r_div],
       [a |-> AD9523_PLL1_FEEDBACK_DIVIDER, v |-> pd.pll1_feedback_div],
       [a |-> AD9523_PLL1_CHARGE_PUMP_CTRL,
        v |-> AD_IFE(pd.pll1_bypass_en, AD9523_PLL1_CHARGE_PUMP_TRISTATE,
                 OrAll(<< AD9523_PLL1_CHARGE_PUMP_CURRENT_nA(pd.pll1_charge_pump_current_nA),
                          AD9523_PLL1_CHARGE_PUMP_MODE_NORMAL,
                          AD9523_PLL1_BACKLASH_PW_MIN >>))],
       [a |-> AD9523_PLL1_INPUT_RECEIVERS_CTRL,
        v |-> AD_IFE(pd.pll1_bypass_en,
                 OrAll(<< AD9523_PLL1_REFA_REFB_PWR_CTRL_EN,
                          AD_IF(pd.osc_in_diff_en, AD9523_PLL1_OSC_IN_DIFF_EN),
                          AD_IF(pd.osc_in_cmos_neg_inp_en, AD9523_PLL1_OSC_IN_CMOS_NEG_INP_EN) >>),
                 OrAll(<< AD_IF(pd.refa_diff_rcv_en, AD9523_PLL1_REFA_RCV_EN),
                          AD_IF(pd.refb_diff_rcv_en, AD9523_PLL1_REFB_RCV_EN),
                          AD_IF(pd.osc_in_diff_en, AD9523_PLL1_OSC_IN_DIFF_EN),
                          AD_IF(pd.osc_in_cmos_neg_inp_en, AD9523_PLL1_OSC_IN_CMOS_NEG_INP_EN),
                          AD_IF(pd.refa_diff_rcv_en, AD9523_PLL1_REFA_DIFF_RCV_EN),
                          AD_IF(pd.refb_diff_rcv_en, AD9523_PLL1_REFB_DIFF_RCV_EN) >>))],
       [a |-> AD9523_PLL1_REF_CTRL,
        v |-> AD_IFE(pd.pll1_bypass_en,
                 BitOr(AD9523_PLL1_BYPASS_FEEDBACK_DIV_EN, AD9523_PLL1_ZERO_DELAY_MODE_INT),
                 OrAll(<< AD_IF(pd.zd_in_diff_en, AD9523_PLL1_ZD_IN_DIFF_EN),
                          AD_IF(pd.zd_in_cmos_neg_inp_en, AD9523_PLL1_ZD_IN_CMOS_NEG_INP_EN),
                          AD_IF(pd.zero_delay_mode_internal_en, AD9523_PLL1_ZERO_DELAY_MODE_INT),
                          AD_IF(pd.osc_in_feedback_en, AD9523_PLL1_OSC_IN_PLL_FEEDBACK_EN),
                          AD_IF(pd.refa_cmos_neg_inp_en, AD9523_PLL1_REFA_CMOS_NEG_INP_EN),
                          AD_IF(pd.refb_cmos_neg_inp_en, AD9523_PLL1_REFB_CMOS_NEG_INP_EN) >>))],
       [a |-> AD9523_PLL1_MISC_CTRL,
        v |-> BitOr(AD9523_PLL1_REFB_INDEP_DIV_CTRL_EN, AD9523_PLL1_REF_MODE(pd.ref_mode))],
       [a |-> AD9523_PLL1_LOOP_FILTER_CTRL,
        v |-> AD9523_PLL1_LOOP_FILTER_RZERO(pd.pll1_loop_filter_rzero)],
       [a |-> AD9523_PLL2_CHARGE_PUMP,
        v |-> AD9523_PLL2_CHARGE_PUMP_CURRENT_nA(pd.pll2_charge_pump_current_nA)],
       [a |-> AD9523_PLL2_FEEDBACK_DIVIDER_AB,
        v |-> BitOr(AD9523_PLL2_FB_NDIV_A_CNT(pd.pll2_ndiv_a_cnt),
                    AD9523_PLL2_FB_NDIV_B_CNT(pd.pll2_ndiv_b_cnt))],
       [a |-> AD9523_PLL2_CTRL,
        v |-> OrAll(<< AD9523_PLL2_CHARGE_PUMP_MODE_NORMAL, AD9523_PLL2_BACKLASH_CTRL_EN,
                       AD_IF(pd.pll2_freq_doubler_en, AD9523_PLL2_FREQ_DOUBLER_EN) >>)],
       [a |-> AD9523_PLL2_VCO_CTRL, v |-> AD9523_PLL2_VCO_CALIBRATE],
       [a |-> AD9523_PLL2_VCO_DIVIDER,
        v |-> OrAll(<< AD9523_PLL2_VCO_DIV_M1(pd.pll2_vco_div_m1),
                       AD9523_PLL2_VCO_DIV_M2(pd.pll2_vco_div_m2),
                       AD_IFE(pd.pll2_vco_div_m1 # 0, 0, AD9523_PLL2_VCO_DIV_M1_PWR_DOWN_EN),
                       AD_IFE(pd.pll2_vco_div_m2 # 0, 0, AD9523_PLL2_VCO_DIV_M2_PWR_DOWN_EN) >>)],
       [a |-> AD9523_PLL2_R2_DIVIDER, v |-> AD9523_PLL2_R2_DIVIDER_VAL(pd.pll2_r2_div)],
       [a |-> AD9523_PLL2_LOOP_FILTER_CTRL,
        v |-> OrAll(<< AD9523_PLL2_LOOP_FILTER_CPOLE1(pd.cpole1),
                       AD9523_PLL2_LOOP_FILTER_RZERO(pd.rzero),
                       AD9523_PLL2_LOOP_FILTER_RPOLE2(pd.rpole2),
                       AD_IF(pd.rzero_bypass_en, AD9523_PLL2_LOOP_FILTER_RZERO_BYPASS_EN) >>)] >>

\* the writes of ad9523_setup between the channel loops and ad9523_sync
SetupTail(pd) ==
    << [a |-> AD9523_POWER_DOWN_CTRL, v |-> 0],
       [a |-> AD9523_STATUS_SIGNALS, v |-> AD9523_STATUS_MONITOR_01_PLL12_LOCKED],
       [a |-> AD9523_IO_UPDATE, v |-> AD9523_IO_UPDATE_EN] >>

SetupTable(l, pd) ==
    CASE l = "s_head" -> SetupHead(pd)
      [] l = "s_pll" -> SetupPll(pd)
      [] l = "s_tail" -> SetupTail(pd)

\* st->vco_out_freq[] as ad9523_setup derives it: vco_freq = vcxo_freq *
\* (doubler ? 2 : 1) * N / R2 and vco_freq / m, computed as one floor division
\* (floor(floor(x / r) / m) = floor(x / (r * m))) because vco_freq itself is
\* beyond the checker's integers
SetupVcoOutFreq(pd, old) ==
    LET n == (IF pd.pll2_freq_doubler_en THEN 2 ELSE 1) *
             AD9523_PLL2_FB_NDIV(pd.pll2_ndiv_a_cnt, pd.pll2_ndiv_b_cnt)
        out(m) == MulDivFloor(pd.vcxo_freq, n, pd.pll2_r2_div * m)
    IN  [old EXCEPT ![AD9523_VCO1] = IF pd.pll2_vco_div_m1 # 0
                                     THEN out(pd.pll2_vco_div_m1) ELSE @,
                    ![AD9523_VCO2] = IF pd.pll2_vco_div_m2 # 0
                                     THEN out(pd.pll2_vco_div_m2) ELSE @,
                    ![AD9523_VCXO] = pd.vcxo_freq]

\* faulty variant: output_dis left out of the value
SetupChanValue_NoPwrDown(chan) ==
    OrAll(<< AD9523_CLK_DIST_DRIVER_MODE(chan.driver_mode),
             AD9523_CLK_DIST_DIV(chan.channel_divider),
             AD9523_CLK_DIST_DIV_PHASE(chan.divider_phase) >>)

\* the value ad9523_setup writes to a configured channel's register
SetupChanValue(chan) ==
    OrAll(<< AD9523_CLK_DIST_DRIVER_MODE(chan.driver_mode),
             AD9523_CLK_DIST_DIV(chan.channel_divider),
             AD9523_CLK_DIST_DIV_PHASE(chan.divider_phase),
             IF chan.sync_ignore_en THEN AD9523_CLK_DIST_IGNORE_SYNC_EN ELSE 0,
             IF chan.divider_output_invert_en THEN AD9523_CLK_DIST_INV_DIV_OUTPUT_EN ELSE 0,
             IF chan.low_power_mode_en THEN AD9523_CLK_DIST_LOW_PWR_MODE_EN ELSE 0,
             IF chan.output_dis THEN AD9523_CLK_DIST_PWR_DOWN_EN ELSE 0 >>)

\* the next entry after i of pdata->channels with channel_num < AD9523_NUM_CHAN
\* (0: none), and the next clear bit of active_mask from c on (AD9523_NUM_CHAN: none)
NextChanIdx(pd, i) ==
    LET J == { j \in (i + 1)..Len(pd.channels) : pd.channels[j].channel_num < AD9523_NUM_CHAN }
    IN  IF J = {} THEN 0 ELSE CHOOSE j \in J : \A k \in J : j <= k
NextClearBit(mask, c) ==
    LET J == { j \in c..(AD9523_NUM_CHAN - 1) : j \notin mask }
    IN  IF J = {} THEN AD9523_NUM_CHAN ELSE CHOOSE j \in J : \A k \in J : j <= k

\* the channels user space and the clock framework can name: those
\* ad9523_setup registered
ConfiguredChans ==
    { pdata.channels[i].channel_num : i \in 1..Len(pdata.channels) }
        \cap 0..(AD9523_NUM_CHAN - 1)

\* ad9523_probe up to the call of ad9523_setup: ad9523_parse_dt on the
\* device tree dt, which runs ad9523_calc_dividers when a target frequency is
\* given and range-checks the PLL2 fields
Probe(t, trees) ==
    /\ pc[t] = "probe"
    /\ \E dt \in trees :
         LET static == dt.m1_freq = 0 /\ dt.m2_freq = 0
             calc == ad9523_calc_dividers(DtBase.vcxo_freq, dt.m1_freq, dt.m2_freq)
             pd == ParseDtPdata(dt, calc)
         IN  /\ calc_ret' = IF static THEN "none" ELSE IF calc.ret = 0 THEN "ok" ELSE "fail"
             /\ call' = [call EXCEPT ![t] = [op |-> "probe"]]
             /\ IF ParseDtValid(pd)
                THEN /\ pdata' = [pd EXCEPT !.channels = dt.channels]
                     /\ Goto(t, "s_head", [LocZero EXCEPT !.i = 1])
                ELSE /\ UNCHANGED pdata
                     /\ Return(t, "failed", Res(-EINVAL))
    /\ UNCHANGED <<first, trace, ncalls, lock, regs, vco_out_freq, vco_out_map, is_enabled, oob>>

\* ad9523_setup leaves a channel of pdata->channels[] behind: the next one,
\* or the power-down loop over the clear bits of active_mask, or the tail
SetupAfterChan(t, q) ==
    LET j == NextChanIdx(pdata, q.i)
        c == NextClearBit(q.active_mask, 0)
    IN  IF j # 0 THEN Goto(t, "s_chan", [q EXCEPT !.i = j])
        ELSE IF c < AD9523_NUM_CHAN THEN Goto(t, "s_unused", [q EXCEPT !.i = c])
        ELSE Goto(t, "s_tail", [q EXCEPT !.i = 1])

\* one plain write of ad9523_setup ("if (ret < 0) return ret;")
Setup_write(t) ==
    /\ pc[t] \in { "s_head", "s_pll", "s_tail" }
    /\ LET tab == SetupTable(pc[t], pdata)
           op == tab[loc[t].i]
       IN  \E ret \in WriteRets :
             /\ ad9523_write(t, op.a, op.v, ret)
             /\ vco_out_freq' = IF ret = 0 /\ op.a = AD9523_PLL2_VCO_DIVIDER
                                THEN SetupVcoOutFreq(pdata, vco_out_freq)
                                ELSE vco_out_freq
             /\ IF ret < 0 THEN Return(t, "failed", Res(ret))
                ELSE IF loc[t].i < Len(tab) THEN Goto(t, pc[t], [loc[t] EXCEPT !.i = @ + 1])
                ELSE IF pc[t] = "s_head" THEN Goto(t, "s_rd_id", loc[t])
                ELSE IF pc[t] = "s_pll" THEN SetupAfterChan(t, [loc[t] EXCEPT !.i = 0])
                ELSE Goto(t, "sy_read", loc[t])
    /\ UNCHANGED <<call, first, ncalls, lock, vco_out_map, is_enabled, pdata, calc_ret, oob>>

\* i = ad9523_read(AD9523_EEPROM_CUSTOMER_VERSION_ID)
Setup_rd_id(t) ==
    /\ pc[t] = "s_rd_id"
    /\ \E ret \in ReadRets(AD9523_EEPROM_CUSTOMER_VERSION_ID) :
         /\ ad9523_read(t, AD9523_EEPROM_CUSTOMER_VERSION_ID, ret)
         /\ IF ret < 0 THEN Return(t, "failed", Res(ret))
            ELSE Goto(t, "s_wr_id", [loc[t] EXCEPT !.tmp = ret])
    /\ UNCHANGED <<call, first, ncalls, lock, regs, vco_out_freq, vco_out_map, is_enabled,
                   pdata, calc_ret, oob>>

\* ad9523_write(AD9523_EEPROM_CUSTOMER_VERSION_ID, 0xAD95)
Setup_wr_id(t) ==
    /\ pc[t] = "s_wr_id"
    /\ \E ret \in WriteRets :
         /\ ad9523_write(t, AD9523_EEPROM_CUSTOMER_VERSION_ID, SpiVerifyPattern, ret)
         /\ IF ret < 0 THEN Return(t, "failed", Res(ret))
            ELSE Goto(t, "s_rd_verify", loc[t])
    /\ UNCHANGED <<call, first, ncalls, lock, vco_out_freq, vco_out_map, is_enabled,
                   pdata, calc_ret, oob>>

\* the read back of the sentinel: "SPI Read Verify failed" unless it is 0xAD95
Setup_rd_verify(t) ==
    /\ pc[t] = "s_rd_verify"
    /\ \E ret \in ReadRets(AD9523_EEPROM_CUSTOMER_VERSION_ID) :
         /\ ad9523_read(t, AD9523_EEPROM_CUSTOMER_VERSION_ID, ret)
         /\ IF ret < 0 THEN Return(t, "failed", Res(ret))
            ELSE IF ret # SpiVerifyPattern THEN Return(t, "failed", Res(-EIO))
            ELSE Goto(t, "s_restore_id", loc[t])
    /\ UNCHANGED <<call, first, ncalls, lock, regs, vco_out_freq, vco_out_map, is_enabled,
                   pdata, calc_ret, oob>>

\* ad9523_write(AD9523_EEPROM_CUSTOMER_VERSION_ID, i)
Setup_restore_id(t) ==
    /\ pc[t] = "s_restore_id"
    /\ \E ret \in WriteRets :
         /\ ad9523_write(t, AD9523_EEPROM_CUSTOMER_VERSION_ID, loc[t].tmp, ret)
         /\ IF ret < 0 THEN Return(t, "failed", Res(ret))
            ELSE Goto(t, "s_pll", [loc[t] EXCEPT !.i = 1, !.tmp = 0])
    /\ UNCHANGED <<call, first, ncalls, lock, vco_out_freq, vco_out_map, is_enabled,
                   pdata, calc_ret, oob>>

\* the body of the loop over pdata->channels[] up to the call of
\* ad9523_vco_out_map, which returns 0 at once for channels 10..13
Setup_chan(t) ==
    /\ pc[t] = "s_chan"
    /\ LET chan == pdata.channels[loc[t].i]
           q == [loc[t] EXCEPT !.active_mask = @ \cup { chan.channel_num }]
       IN  \E ret \in WriteRets :
             /\ ad9523_write(t, AD9523_CHANNEL_CLOCK_DIST(chan.channel_num),
                             SetupChanValue(chan), ret)
             /\ IF ret < 0 THEN Return(t, "failed", Res(ret))
                ELSE IF chan.channel_num < AD9523_NUM_CHAN_ALT_CLK_SRC
                THEN Goto(t, "vmap_read",
                          [q EXCEPT !.out = IF chan.use_alt_clock_src THEN 1 ELSE 0])
                ELSE SetupAfterChan(t, q)
    /\ UNCHANGED <<call, first, ncalls, lock, vco_out_freq, vco_out_map, is_enabled,
                   pdata, calc_ret, oob>>

\* for_each_clear_bit(i, &active_mask, AD9523_NUM_CHAN): power the channel down
Setup_unused(t) ==
    /\ pc[t] = "s_unused"
    /\ LET c == NextClearBit(loc[t].active_mask, loc[t].i + 1)
       IN  \E ret \in WriteRets :
             /\ ad9523_write(t, AD9523_CHANNEL_CLOCK_DIST(loc[t].i),
                             BitOr(AD9523_CLK_DIST_DRIVER_MODE(TRISTATE),
                                   AD9523_CLK_DIST_PWR_DOWN_EN), ret)
             /\ IF ret < 0 THEN Return(t, "failed", Res(ret))
                ELSE IF c < AD9523_NUM_CHAN THEN Goto(t, "s_unused", [loc[t] EXCEPT !.i = c])
                ELSE Goto(t, "s_tail", [loc[t] EXCEPT !.i = 1])
    /\ UNCHANGED <<call, first, ncalls, lock, vco_out_freq, vco_out_map, is_enabled,
                   pdata, calc_ret, oob>>

-----------------------------------------------------------------------------
(* ad9523_vco_out_map and ad9523_set_clock_provider                        *)

\* the channel ad9523_vco_out_map / ad9523_write_raw of task t works on
CurCh(t) ==
    IF call[t].op = "probe" THEN pdata.channels[loc[t].i].channel_num ELSE call[t].ch

\* the routing register holding channel ch's select bit, and the bit
VcoMapReg(ch) ==
    IF ch \in 4..6 THEN AD9523_PLL1_OUTPUT_CTRL ELSE AD9523_PLL1_OUTPUT_CHANNEL_CTRL
VcoMapBit(ch) ==
    IF ch \in 0..3 THEN ch
    ELSE IF ch \in 4..6 THEN 5 + (ch - 4)
    ELSE 4 + (ch - 7)

\* faulty variant: the divider truncated instead of rounded
FreqReg_Floor(reg, src, val) ==
    LET tmp == Clamp(src \div val, 1, 1024)
    IN  BitOr(SetField(reg, 8, 10, 0), AD9523_CLK_DIST_DIV(tmp))

\* DIV_ROUND_CLOSEST(src, val), clamp(tmp, 1, 1024), and the divider field of
\* reg replaced by it
FreqReg(reg, src, val) ==
    LET tmp == Clamp(DivRoundClosest(src, val), 1, 1024)
    IN  BitOr(SetField(reg, 8, 10, 0), AD9523_CLK_DIST_DIV(tmp))

\* ad9523_vco_out_map returned ret to its caller: ad9523_setup goes on with
\* the next channel; ad9523_write_raw (through ad9523_set_clock_provider)
\* computes the divider from the source now recorded in map
VmapDone(t, ret, q, map) ==
    IF call[t].op = "probe"
    THEN IF ret < 0 THEN Return(t, "failed", Res(ret)) ELSE SetupAfterChan(t, q)
    ELSE IF ret < 0 THEN Goto(t, "wr_unlock", [q EXCEPT !.ret = ret])
    ELSE Goto(t, "wr_write",
              [q EXCEPT !.ret = ret,
                        !.reg = FreqReg(q.reg, vco_out_freq[map[call[t].ch]], call[t].val)])

\* faulty variant: the value to write built from the select bit alone, the
\* bits read from the register dropped
Vmap_read_Overwrite(t) ==
    /\ pc[t] = "vmap_read"
    /\ LET ch == CurCh(t)
           out == loc[t].out
       IN  \E ret \in ReadRets(VcoMapReg(ch)) :
             /\ ad9523_read(t, VcoMapReg(ch), ret)
             /\ IF ret < 0
                THEN /\ vco_out_map' = [vco_out_map EXCEPT ![ch] = out]
                     /\ VmapDone(t, ret, loc[t], [vco_out_map EXCEPT ![ch] = out])
                ELSE /\ UNCHANGED vco_out_map
                     /\ Goto(t, "vmap_write",
                             [loc[t] EXCEPT
                                !.tmp = IF out # 0 THEN SetBit(0, VcoMapBit(ch)) ELSE 0,
                                !.out = IF ch \in 0..3 /\ out # 0 THEN AD9523_VCXO ELSE out])
    /\ UNCHANGED <<call, first, ncalls, lock, regs, vco_out_freq, is_enabled, pdata, calc_ret, oob>>

\* ad9523_vco_out_map, channels 0..9: the read of the routing register.  A
\* failed read "break"s to the store into st->vco_out_map[ch].
Vmap_read(t) ==
    /\ pc[t] = "vmap_read"
    /\ LET ch == CurCh(t)
           out == loc[t].out
       IN  \E ret \in ReadRets(VcoMapReg(ch)) :
             /\ ad9523_read(t, VcoMapReg(ch), ret)
             /\ IF ret < 0
                THEN /\ vco_out_map' = [vco_out_map EXCEPT ![ch] = out]
                     /\ VmapDone(t, ret, loc[t], [vco_out_map EXCEPT ![ch] = out])
                ELSE /\ UNCHANGED vco_out_map
                     /\ Goto(t, "vmap_write",
                             [loc[t] EXCEPT
                                !.tmp = IF out # 0 THEN SetBit(ret, VcoMapBit(ch))
                                        ELSE ClrBit(ret, VcoMapBit(ch)),
                                !.out = IF ch \in 0..3 /\ out # 0 THEN AD9523_VCXO ELSE out])
    /\ UNCHANGED <<call, first, ncalls, lock, regs, vco_out_freq, is_enabled, pdata, calc_ret, oob>>

\* ad9523_vco_out_map: the write back, then st->vco_out_map[ch] = out
Vmap_write(t) ==
    /\ pc[t] = "vmap_write"
    /\ LET ch == CurCh(t)
       IN  \E ret \in WriteRets :
             /\ ad9523_write(t, VcoMapReg(ch), loc[t].tmp, ret)
             /\ vco_out_map' = [vco_out_map EXCEPT ![ch] = loc[t].out]
             /\ VmapDone(t, ret, [loc[t] EXCEPT !.tmp = 0],
                         [vco_out_map EXCEPT ![ch] = loc[t].out])
    /\ UNCHANGED <<call, first, ncalls, lock, vco_out_freq, is_enabled, pdata, calc_ret, oob>>

\* use_alt_clk_src of ad9523_set_clock_provider for a channel in 0..9
UseAltClkSrc(ch, freq) ==
    IF ch \in 0..3 THEN freq = vco_out_freq[AD9523_VCXO]
    ELSE LET tmp1 == (vco_out_freq[AD9523_VCO1] \div freq) * freq
             tmp2 == (vco_out_freq[AD9523_VCO2] \div freq) * freq
         IN  Abs(tmp1 - freq) > Abs(tmp2 - freq)

-----------------------------------------------------------------------------
(* ad9523_sync                                                             *)

\* ad9523_sync returned ret: ad9523_setup registers the clocks of the
\* configured channels and probe is through; ad9523_store unlocks
SyncDone(t, ret, q) ==
    IF call[t].op = "probe"
    THEN IF ret < 0
         THEN Return(t, "failed", Res(ret)) /\ UNCHANGED is_enabled
         ELSE /\ Return(t, "registered", Res(0))
              /\ is_enabled' =
                   [ch \in DOMAIN is_enabled |->
                      IF ch \in ConfiguredChans
                      THEN \E i \in 1..Len(pdata.channels) :
                              /\ pdata.channels[i].channel_num = ch
                              /\ ~pdata.channels[i].output_dis
                      ELSE is_enabled[ch]]
    ELSE Goto(t, "st_unlock", [q EXCEPT !.ret = ret]) /\ UNCHANGED is_enabled

\* ret = ad9523_read(AD9523_STATUS_SIGNALS); tmp = ret | SYNC_MAN_CTRL
Sync_read(t) ==
    /\ pc[t] = "sy_read"
    /\ \E ret \in ReadRets(AD9523_STATUS_SIGNALS) :
         /\ ad9523_read(t, AD9523_STATUS_SIGNALS, ret)
         /\ IF ret < 0 THEN SyncDone(t, ret, loc[t])
            ELSE /\ Goto(t, "sy_wset",
                         [loc[t] EXCEPT !.tmp = SetBit(ret, AD9523_STATUS_SIGNALS_SYNC_MAN_CTRL_BIT)])
                 /\ UNCHANGED is_enabled
    /\ UNCHANGED <<call, first, ncalls, lock, regs, vco_out_freq, vco_out_map, pdata, calc_ret, oob>>

\* ret = ad9523_write(AD9523_STATUS_SIGNALS, tmp)
Sync_wset(t) ==
    /\ pc[t] = "sy_wset"
    /\ \E ret \in WriteRets :
         /\ ad9523_write(t, AD9523_STATUS_SIGNALS, loc[t].tmp, ret)
         /\ IF ret < 0 THEN SyncDone(t, ret, loc[t])
            ELSE Goto(t, "sy_upd1", loc[t]) /\ UNCHANGED is_enabled
    /\ UNCHANGED <<call, first, ncalls, lock, vco_out_freq, vco_out_map, pdata, calc_ret, oob>>

\* faulty variant: the handshake without its first commit
Sync_upd1_Skip(t) ==
    /\ pc[t] = "sy_upd1"
    /\ Goto(t, "sy_wclr",
            [loc[t] EXCEPT !.tmp = ClrBit(@, AD9523_STATUS_SIGNALS_SYNC_MAN_CTRL_BIT)])
    /\ UNCHANGED <<call, first, trace, ncalls, lock, regs, vco_out_freq, vco_out_map, is_enabled,
                   pdata, calc_ret, oob>>

\* ad9523_io_update(indio_dev), its return value dropped;
\* tmp &= ~SYNC_MAN_CTRL
Sync_upd1(t) ==
    /\ pc[t] = "sy_upd1"
    /\ \E ret \in WriteRets :
         /\ ad9523_io_update(t, ret)
         /\ Goto(t, "sy_wclr",
                 [loc[t] EXCEPT !.tmp = ClrBit(@, AD9523_STATUS_SIGNALS_SYNC_MAN_CTRL_BIT)])
    /\ UNCHANGED <<call, first, ncalls, lock, vco_out_freq, vco_out_map, is_enabled,
                   pdata, calc_ret, oob>>

\* ret = ad9523_write(AD9523_STATUS_SIGNALS, tmp)
Sync_wclr(t) ==
    /\ pc[t] = "sy_wclr"
    /\ \E ret \in WriteRets :
         /\ ad9523_write(t, AD9523_STATUS_SIGNALS, loc[t].tmp, ret)
         /\ IF ret < 0 THEN SyncDone(t, ret, loc[t])
            ELSE Goto(t, "sy_upd2", loc[t]) /\ UNCHANGED is_enabled
    /\ UNCHANGED <<call, first, ncalls, lock, vco_out_freq, vco_out_map, pdata, calc_ret, oob>>

\* return ad9523_io_update(indio_dev)
Sync_upd2(t) ==
    /\ pc[t] = "sy_upd2"
    /\ \E ret \in WriteRets :
         /\ ad9523_io_update(t, ret)
         /\ SyncDone(t, ret, loc[t])
    /\ UNCHANGED <<call, first, ncalls, lock, vco_out_freq, vco_out_map, pdata, calc_ret, oob>>

-----------------------------------------------------------------------------
(* ad9523_store_eeprom                                                     *)

\* ad9523_write(AD9523_EEPROM_CTRL1, EEPROM_WRITE_PROT_DIS)
Eeprom_wp_dis(t) ==
    /\ pc[t] = "ee_wp_dis"
    /\ \E ret \in WriteRets :
         /\ ad9523_write(t, AD9523_EEPROM_CTRL1, AD9523_EEPROM_CTRL1_EEPROM_WRITE_PROT_DIS, ret)
         /\ IF ret < 0 THEN Goto(t, "st_unlock", [loc[t] EXCEPT !.ret = ret])
            ELSE Goto(t, "ee_xfer", loc[t])
    /\ UNCHANGED <<call, first, ncalls, lock, vco_out_freq, vco_out_map, is_enabled,
                   pdata, calc_ret, oob>>

\* faulty variant: one retry more (tmp = 5)
Eeprom_xfer_Tmp5(t) ==
    /\ pc[t] = "ee_xfer"
    /\ \E ret \in WriteRets :
         /\ ad9523_write(t, AD9523_EEPROM_CTRL2, AD9523_EEPROM_CTRL2_REG2EEPROM, ret)
         /\ IF ret < 0 THEN Goto(t, "st_unlock", [loc[t] EXCEPT !.ret = ret])
            ELSE Goto(t, "ee_poll", [loc[t] EXCEPT !.tmp = 5])
    /\ UNCHANGED <<call, first, ncalls, lock, vco_out_freq, vco_out_map, is_enabled,
                   pdata, calc_ret, oob>>

\* ad9523_write(AD9523_EEPROM_CTRL2, REG2EEPROM); tmp = 4
Eeprom_xfer(t) ==
    /\ pc[t] = "ee_xfer"
    /\ \E ret \in WriteRets :
         /\ ad9523_write(t, AD9523_EEPROM_CTRL2, AD9523_EEPROM_CTRL2_REG2EEPROM, ret)
         /\ IF ret < 0 THEN Goto(t, "st_unlock", [loc[t] EXCEPT !.ret = ret])
            ELSE Goto(t, "ee_poll", [loc[t] EXCEPT !.tmp = 4])
    /\ UNCHANGED <<call, first, ncalls, lock, vco_out_freq, vco_out_map, is_enabled,
                   pdata, calc_ret, oob>>

\* one round of do { msleep(20); ret = ad9523_read(XFER_STATUS); }
\* while ((ret & IN_PROGRESS) && tmp--)
Eeprom_poll(t) ==
    /\ pc[t] = "ee_poll"
    /\ \E ret \in ReadRets(AD9523_EEPROM_DATA_XFER_STATUS) :
         /\ ad9523_read(t, AD9523_EEPROM_DATA_XFER_STATUS, ret)
         /\ IF ret < 0 THEN Goto(t, "st_unlock", [loc[t] EXCEPT !.ret = ret, !.tmp = 0])
            ELSE IF Bit(ret, AD9523_EEPROM_DATA_XFER_IN_PROGRESS_BIT) = 1 /\ loc[t].tmp # 0
            THEN Goto(t, "ee_poll", [loc[t] EXCEPT !.tmp = @ - 1])
            ELSE Goto(t, "ee_wp_en", [loc[t] EXCEPT !.tmp = 0])
    /\ UNCHANGED <<call, first, ncalls, lock, regs, vco_out_freq, vco_out_map, is_enabled,
                   pdata, calc_ret, oob>>

\* ad9523_write(AD9523_EEPROM_CTRL1, 0)
Eeprom_wp_en(t) ==
    /\ pc[t] = "ee_wp_en"
    /\ \E ret \in WriteRets :
         /\ ad9523_write(t, AD9523_EEPROM_CTRL1, 0, ret)
         /\ IF ret < 0 THEN Goto(t, "st_unlock", [loc[t] EXCEPT !.ret = ret])
            ELSE Goto(t, "ee_rd_err", loc[t])
    /\ UNCHANGED <<call, first, ncalls, lock, vco_out_freq, vco_out_map, is_enabled,
                   pdata, calc_ret, oob>>

\* ret = ad9523_read(AD9523_EEPROM_ERROR_READBACK); -EIO when the FAIL bit is set
Eeprom_rd_err(t) ==
    /\ pc[t] = "ee_rd_err"
    /\ \E ret \in ReadRets(AD9523_EEPROM_ERROR_READBACK) :
         /\ ad9523_read(t, AD9523_EEPROM_ERROR_READBACK, ret)
         /\ IF ret < 0 THEN Goto(t, "st_unlock", [loc[t] EXCEPT !.ret = ret])
            ELSE IF Bit(ret, AD9523_EEPROM_ERROR_READBACK_FAIL_BIT) = 1
            THEN Goto(t, "st_unlock", [loc[t] EXCEPT !.ret = -EIO])
            ELSE Goto(t, "st_unlock", [loc[t] EXCEPT !.ret = ret])
    /\ UNCHANGED <<call, first, ncalls, lock, regs, vco_out_freq, vco_out_map, is_enabled,
                   pdata, calc_ret, oob>>

-----------------------------------------------------------------------------
(* ad9523_store and ad9523_show (sysfs attributes)                         *)

\* mutex_lock and the switch on the attribute
Store_lock(t) ==
    /\ pc[t] = "st_lock"
    /\ mutex_lock(t)
    /\ CASE call[t].address = AD9523_SYNC -> Goto(t, "sy_read", loc[t])
         [] call[t].address = AD9523_EEPROM -> Goto(t, "ee_wp_dis", loc[t])
         [] OTHER -> Goto(t, "st_unlock", [loc[t] EXCEPT !.ret = -ENODEV])
    /\ UNCHANGED <<call, first, trace, ncalls, regs, vco_out_freq, vco_out_map, is_enabled,
                   pdata, calc_ret, oob>>

\* mutex_unlock; return ret ? ret : len
Store_unlock(t) ==
    /\ pc[t] = "st_unlock"
    /\ mutex_unlock(t)
    /\ Return(t, "idle", Res(IF loc[t].ret # 0 THEN loc[t].ret ELSE call[t].len))
    /\ UNCHANGED <<call, first, trace, ncalls, regs, vco_out_freq, vco_out_map, is_enabled,
                   pdata, calc_ret, oob>>

Show_lock(t) ==
    /\ pc[t] = "sh_lock"
    /\ mutex_lock(t)
    /\ Goto(t, "sh_read", loc[t])
    /\ UNCHANGED <<call, first, trace, ncalls, regs, vco_out_freq, vco_out_map, is_enabled,
                   pdata, calc_ret, oob>>

\* ret = ad9523_read(AD9523_READBACK_0); sysfs_emit of the status bit ("0\n"
\* or "1\n": 2 characters)
Show_read(t) ==
    /\ pc[t] = "sh_read"
    /\ \E ret \in ReadRets(AD9523_READBACK_0) :
         /\ ad9523_read(t, AD9523_READBACK_0, ret)
         /\ IF ret >= 0
            THEN Goto(t, "sh_unlock", [loc[t] EXCEPT !.ret = 2, !.tmp = Bit(ret, call[t].address)])
            ELSE Goto(t, "sh_unlock", [loc[t] EXCEPT !.ret = ret])
    /\ UNCHANGED <<call, first, ncalls, lock, regs, vco_out_freq, vco_out_map, is_enabled,
                   pdata, calc_ret, oob>>

Show_unlock(t) ==
    /\ pc[t] = "sh_unlock"
    /\ mutex_unlock(t)
    /\ Return(t, "idle", [ret |-> loc[t].ret, val |-> loc[t].tmp, val2 |-> 0])
    /\ UNCHANGED <<call, first, trace, ncalls, regs, vco_out_freq, vco_out_map, is_enabled,
                   pdata, calc_ret, oob>>

-----------------------------------------------------------------------------
(* ad9523_reg_access (debugfs)                                             *)

RegAccess_lock(t) ==
    /\ pc[t] = "ra_lock"
    /\ mutex_lock(t)
    /\ Goto(t, IF call[t].rd THEN "ra_read" ELSE "ra_write", loc[t])
    /\ UNCHANGED <<call, first, trace, ncalls, regs, vco_out_freq, vco_out_map, is_enabled,
                   pdata, calc_ret, oob>>

\* ret = ad9523_write(reg | AD9523_R1B, writeval)
RegAccess_write(t) ==
    /\ pc[t] = "ra_write"
    /\ \E ret \in WriteRets :
         /\ ad9523_write(t, call[t].reg + AD9523_R1B, call[t].writeval, ret)
         /\ Goto(t, "ra_upd", [loc[t] EXCEPT !.ret = ret])
    /\ UNCHANGED <<call, first, ncalls, lock, vco_out_freq, vco_out_map, is_enabled,
                   pdata, calc_ret, oob>>

\* ad9523_io_update(indio_dev), its return value dropped
RegAccess_upd(t) ==
    /\ pc[t] = "ra_upd"
    /\ \E ret \in WriteRets :
         /\ ad9523_io_update(t, ret)
         /\ Goto(t, "ra_unlock", loc[t])
    /\ UNCHANGED <<call, first, ncalls, lock, vco_out_freq, vco_out_map, is_enabled,
                   pdata, calc_ret, oob>>

\* ret = ad9523_read(reg | AD9523_R1B); *readval = ret; ret = 0
RegAccess_read(t) ==
    /\ pc[t] = "ra_read"
    /\ \E ret \in ReadRets(call[t].reg + AD9523_R1B) :
         /\ ad9523_read(t, call[t].reg + AD9523_R1B, ret)
         /\ IF ret < 0 THEN Goto(t, "ra_unlock", [loc[t] EXCEPT !.ret = ret])
            ELSE Goto(t, "ra_unlock", [loc[t] EXCEPT !.ret = 0, !.tmp = ret])
    /\ UNCHANGED <<call, first, ncalls, lock, regs, vco_out_freq, vco_out_map, is_enabled,
                   pdata, calc_ret, oob>>

RegAccess_unlock(t) ==
    /\ pc[t] = "ra_unlock"
    /\ mutex_unlock(t)
    /\ Return(t, "idle", [ret |-> loc[t].ret, val |-> loc[t].tmp, val2 |-> 0])
    /\ UNCHANGED <<call, first, trace, ncalls, regs, vco_out_freq, vco_out_map, is_enabled,
                   pdata, calc_ret, oob>>

-----------------------------------------------------------------------------
(* ad9523_write_raw and ad9523_read_raw (IIO channel attributes)           *)

IIO_VAL_INT == 1
IIO_VAL_INT_PLUS_MICRO == 2
PhaseScale == 3141592

\* a * b in 32-bit two's complement arithmetic (the kernel is built with
\* wrapping signed overflow), for 0 <= a < 2^31 and 0 <= b <= 1024
MulWrap32(a, b) ==
    LET al == a % 2048
        ah == a \div 2048
        h  == (ah * b) % 2097152
        hs == IF h >= 1048576 THEN h - 2097152 ELSE h
        hi == hs * 2048
        lo == al * b
    IN  IF hi > 2147483647 - lo
        THEN ((hi - 2147483647) - 1) + ((lo - 2147483647) - 1)
        ELSE hi + lo

\* st->vco_out_freq[st->vco_out_map[ch]]: the map has AD9523_NUM_CHAN_ALT_CLK_SRC
\* entries, so for ch >= 10 the index is read past its end (any source)
MapSources(ch) ==
    IF ch < AD9523_NUM_CHAN_ALT_CLK_SRC THEN { vco_out_map[ch] }
    ELSE 0..(AD9523_NUM_CLK_SRC - 1)

\* faulty variant: the phase code scaled by 2 * pi instead of pi
PhaseReg_TwoPi(reg, ret, val, val2) ==
    LET code == val * 1000000 + CRem(val2, 1000000)
        tmp == Clamp(CDiv(MulWrap32(code, AD9523_CLK_DIST_DIV_REV(ret)), 2 * PhaseScale), 0, 63)
    IN  BitOr(SetField(reg, 18, 6, 0), AD9523_CLK_DIST_DIV_PHASE(tmp))

\* case IIO_CHAN_INFO_PHASE of ad9523_write_raw
PhaseReg(reg, ret, val, val2) ==
    LET code == val * 1000000 + CRem(val2, 1000000)
        tmp == Clamp(CDiv(MulWrap32(code, AD9523_CLK_DIST_DIV_REV(ret)), PhaseScale), 0, 63)
    IN  BitOr(SetField(reg, 18, 6, 0), AD9523_CLK_DIST_DIV_PHASE(tmp))

WriteRaw_lock(t) ==
    /\ pc[t] = "wr_lock"
    /\ mutex_lock(t)
    /\ Goto(t, "wr_read", loc[t])
    /\ UNCHANGED <<call, first, trace, ncalls, regs, vco_out_freq, vco_out_map, is_enabled,
                   pdata, calc_ret, oob>>

\* ret = ad9523_read(AD9523_CHANNEL_CLOCK_DIST(ch)); reg = ret; switch (mask)
WriteRaw_read(t) ==
    /\ pc[t] = "wr_read"
    /\ LET c == call[t]
       IN  \E ret \in ReadRets(AD9523_CHANNEL_CLOCK_DIST(c.ch)) :
             /\ ad9523_read(t, AD9523_CHANNEL_CLOCK_DIST(c.ch), ret)
             /\ CASE ret < 0 ->
                       /\ Goto(t, "wr_unlock", [loc[t] EXCEPT !.ret = ret])
                       /\ UNCHANGED <<is_enabled, oob>>
                  [] ret >= 0 /\ c.mask = "RAW" ->
                       /\ Goto(t, "wr_write",
                               [loc[t] EXCEPT !.ret = ret,
                                  !.reg = IF c.val # 0
                                          THEN ClrBit(ret, AD9523_CLK_DIST_PWR_DOWN_EN_BIT)
                                          ELSE SetBit(ret, AD9523_CLK_DIST_PWR_DOWN_EN_BIT)])
                       /\ is_enabled' = [is_enabled EXCEPT ![c.ch] = (c.val # 0)]
                       /\ UNCHANGED oob
                  [] ret >= 0 /\ c.mask = "FREQUENCY" /\ c.val <= 0 ->
                       /\ Goto(t, "wr_unlock", [loc[t] EXCEPT !.ret = -EINVAL])
                       /\ UNCHANGED <<is_enabled, oob>>
                  [] ret >= 0 /\ c.mask = "FREQUENCY" /\ c.val > 0
                       /\ c.ch < AD9523_NUM_CHAN_ALT_CLK_SRC ->
                       /\ Goto(t, "vmap_read",
                               [loc[t] EXCEPT !.ret = ret, !.reg = ret,
                                  !.out = IF UseAltClkSrc(c.ch, c.val) THEN 1 ELSE 0])
                       /\ UNCHANGED <<is_enabled, oob>>
                  [] ret >= 0 /\ c.mask = "FREQUENCY" /\ c.val > 0
                       /\ c.ch >= AD9523_NUM_CHAN_ALT_CLK_SRC ->
                       /\ \E m \in MapSources(c.ch) :
                            Goto(t, "wr_write",
                                 [loc[t] EXCEPT !.ret = 0,
                                    !.reg = FreqReg(ret, vco_out_freq[m], c.val)])
                       /\ oob' = TRUE
                       /\ UNCHANGED is_enabled
                  [] ret >= 0 /\ c.mask = "PHASE" ->
                       /\ Goto(t, "wr_write",
                               [loc[t] EXCEPT !.ret = ret,
                                  !.reg = PhaseReg(ret, ret, c.val, c.val2)])
                       /\ UNCHANGED <<is_enabled, oob>>
                  [] OTHER ->
                       /\ Goto(t, "wr_unlock", [loc[t] EXCEPT !.ret = -EINVAL])
                       /\ UNCHANGED <<is_enabled, oob>>
    /\ UNCHANGED <<call, first, ncalls, lock, regs, vco_out_freq, vco_out_map, pdata, calc_ret>>

\* ret = ad9523_write(AD9523_CHANNEL_CLOCK_DIST(ch), reg)
WriteRaw_write(t) ==
    /\ pc[t] = "wr_write"
    /\ \E ret \in WriteRets :
         /\ ad9523_write(t, AD9523_CHANNEL_CLOCK_DIST(call[t].ch), loc[t].reg, ret)
         /\ Goto(t, IF ret < 0 THEN "wr_unlock" ELSE "wr_ioupd", [loc[t] EXCEPT !.ret = ret])
    /\ UNCHANGED <<call, first, ncalls, lock, vco_out_freq, vco_out_map, is_enabled,
                   pdata, calc_ret, oob>>

\* ad9523_io_update(indio_dev), its return value dropped
WriteRaw_ioupd(t) ==
    /\ pc[t] = "wr_ioupd"
    /\ \E ret \in WriteRets :
         /\ ad9523_io_update(t, ret)
         /\ Goto(t, "wr_unlock", loc[t])
    /\ UNCHANGED <<call, first, ncalls, lock, vco_out_freq, vco_out_map, is_enabled,
                   pdata, calc_ret, oob>>

\* out: mutex_unlock; return ret
WriteRaw_unlock(t) ==
    /\ pc[t] = "wr_unlock"
    /\ mutex_unlock(t)
    /\ Return(t, "idle", Res(loc[t].ret))
    /\ UNCHANGED <<call, first, trace, ncalls, regs, vco_out_freq, vco_out_map, is_enabled,
                   pdata, calc_ret, oob>>

ReadRaw_lock(t) ==
    /\ pc[t] = "rr_lock"
    /\ mutex_lock(t)
    /\ Goto(t, "rr_read", loc[t])
    /\ UNCHANGED <<call, first, trace, ncalls, regs, vco_out_freq, vco_out_map, is_enabled,
                   pdata, calc_ret, oob>>

ReadRaw_read(t) ==
    /\ pc[t] = "rr_read"
    /\ \E ret \in ReadRets(AD9523_CHANNEL_CLOCK_DIST(call[t].ch)) :
         /\ ad9523_read(t, AD9523_CHANNEL_CLOCK_DIST(call[t].ch), ret)
         /\ Goto(t, "rr_unlock", [loc[t] EXCEPT !.ret = ret])
    /\ UNCHANGED <<call, first, ncalls, lock, regs, vco_out_freq, vco_out_map, is_enabled,
                   pdata, calc_ret, oob>>

ReadRaw_unlock(t) ==
    /\ pc[t] = "rr_unlock"
    /\ mutex_unlock(t)
    /\ Goto(t, "rr_eval", loc[t])
    /\ UNCHANGED <<call, first, trace, ncalls, regs, vco_out_freq, vco_out_map, is_enabled,
                   pdata, calc_ret, oob>>

\* after the unlock: if (ret < 0) return ret; switch (m)
ReadRaw_eval(t) ==
    /\ pc[t] = "rr_eval"
    /\ LET c == call[t]
           ret == loc[t].ret
           code == (AD9523_CLK_DIST_DIV_PHASE_REV(ret) * PhaseScale)
                       \div AD9523_CLK_DIST_DIV_REV(ret)
       IN  CASE ret < 0 ->
                  /\ Return(t, "idle", Res(ret))
                  /\ UNCHANGED oob
             [] ret >= 0 /\ c.mask = "RAW" ->
                  /\ Return(t, "idle",
                            [ret |-> IIO_VAL_INT, val2 |-> 0,
                             val |-> 1 - Bit(ret, AD9523_CLK_DIST_PWR_DOWN_EN_BIT)])
                  /\ UNCHANGED oob
             [] ret >= 0 /\ c.mask = "FREQUENCY" ->
                  /\ \E m \in MapSources(c.ch) :
                       Return(t, "idle",
                              [ret |-> IIO_VAL_INT, val2 |-> 0,
                               val |-> vco_out_freq[m] \div AD9523_CLK_DIST_DIV_REV(ret)])
                  /\ oob' = (oob \/ c.ch >= AD9523_NUM_CHAN_ALT_CLK_SRC)
             [] ret >= 0 /\ c.mask = "PHASE" ->
                  /\ Return(t, "idle",
                            [ret |-> IIO_VAL_INT_PLUS_MICRO,
                             val |-> code \div 1000000, val2 |-> code % 1000000])
                  /\ UNCHANGED oob
             [] OTHER ->
                  /\ Return(t, "idle", Res(-EINVAL))
                  /\ UNCHANGED oob
    /\ UNCHANGED <<call, first, trace, ncalls, lock, regs, vco_out_freq, vco_out_map, is_enabled,
                   pdata, calc_ret>>

-----------------------------------------------------------------------------
(* The calls user space makes once the device is registered                *)

RawVals == { 0, 1 }
FreqVals == { 0, 122880000, 300000000, 400000000 }
PhaseVals == { <<0, 0>>, <<0, -500000>>, <<1, 570796>>, <<3, 141592>>, <<2147, 0>> }
StoreStates == { "1", "0", "bad" }
StoreLen == 4
ShowAddrs == { 1, 7 }
DebugRegs == { 443 }
DebugVals == { 0, 33 }

WriteRawCalls(chans) ==
    { [op |-> "write_raw", ch |-> ch, mask |-> "RAW", val |-> v, val2 |-> 0] :
        ch \in chans, v \in RawVals }
    \cup { [op |-> "write_raw", ch |-> ch, mask |-> "FREQUENCY", val |-> v, val2 |-> 0] :
        ch \in chans, v \in FreqVals }
    \cup { [op |-> "write_raw", ch |-> ch, mask |-> "PHASE", val |-> p[1], val2 |-> p[2]] :
        ch \in chans, p \in PhaseVals }
    \cup { [op |-> "write_raw", ch |-> ch, mask |-> "SCALE", val |-> 0, val2 |-> 0] :
        ch \in chans }

ReadRawCalls(chans) ==
    { [op |-> "read_raw", ch |-> ch, mask |-> m] :
        ch \in chans, m \in { "RAW", "FREQUENCY", "PHASE", "SCALE" } }

StoreCalls ==
    { [op |-> "store", address |-> a, state |-> b, len |-> StoreLen] :
        a \in { AD9523_SYNC, AD9523_EEPROM }, b \in StoreStates }

ShowCalls == { [op |-> "show", address |-> a] : a \in ShowAddrs }

RegAccessCalls ==
    { [op |-> "reg_access", reg |-> r, writeval |-> v, rd |-> FALSE] :
        r \in DebugRegs, v \in DebugVals }
    \cup { [op |-> "reg_access", reg |-> r, writeval |-> 0, rd |-> TRUE] : r \in DebugRegs }

\* the first label of an entry point
Entry(c) ==
    CASE c.op = "write_raw" -> "wr_lock"
      [] c.op = "read_raw" -> "rr_lock"
      [] c.op = "show" -> "sh_lock"
      [] c.op = "reg_access" -> "ra_lock"
      [] c.op = "store" -> "st_lock"

\* user context t enters one of the driver's callbacks.  ad9523_store parses
\* its buffer first: kstrtobool fails -> -EINVAL; false -> len, nothing done
Begin(t, calls, max) ==
    /\ pc[0] = "registered"
    /\ pc[t] = "idle"
    /\ ncalls[t] < max
    /\ \E c \in calls :
         /\ call' = [call EXCEPT ![t] = c]
         /\ IF c.op = "store" /\ c.state = "bad" THEN Return(t, "idle", Res(-EINVAL))
            ELSE IF c.op = "store" /\ c.state = "0" THEN Return(t, "idle", Res(c.len))
            ELSE /\ pc' = [pc EXCEPT ![t] = Entry(c)]
                 /\ loc' = [loc EXCEPT ![t] = LocZero]
                 /\ result' = [result EXCEPT ![t] = Res(0)]
    /\ trace' = [trace EXCEPT ![t] = <<>>]
    /\ ncalls' = [ncalls EXCEPT ![t] = @ + 1]
    /\ UNCHANGED <<first, lock, regs, vco_out_freq, vco_out_map, is_enabled, pdata, calc_ret, oob>>

-----------------------------------------------------------------------------
(* Specifications                                                          *)

\* the state ad9523_probe starts from: devm_iio_device_alloc zeroes the
\* driver state, mutex_init leaves the lock free
Init ==
    /\ pc = [t \in Tasks |-> IF t = 0 THEN "probe" ELSE "idle"]
    /\ call = [t \in Tasks |-> NoCall]
    /\ loc = [t \in Tasks |-> LocZero]
    /\ result = [t \in Tasks |-> Res(0)]
    /\ trace = [t \in Tasks |-> <<>>]
    /\ ncalls = [t \in Tasks |-> 0]
    /\ lock = 0
    /\ regs = [a \in RegAddrs |-> 0]
    /\ vco_out_freq = [m \in 0..(AD9523_NUM_CLK_SRC - 1) |-> 0]
    /\ vco_out_map = [ch \in 0..(AD9523_NUM_CHAN_ALT_CLK_SRC - 1) |-> 0]
    /\ is_enabled = [ch \in 0..(AD9523_NUM_CHAN - 1) |-> FALSE]
    /\ pdata = PdataZero
    /\ calc_ret = "none"
    /\ oob = FALSE
    /\ first = NoFirst

\* one step of task t inside ad9523_setup or inside a callback
Step(t) ==
    \/ Setup_write(t) \/ Setup_rd_id(t) \/ Setup_wr_id(t) \/ Setup_rd_verify(t)
    \/ Setup_restore_id(t) \/ Setup_chan(t) \/ Setup_unused(t)
    \/ Vmap_read(t) \/ Vmap_write(t)
    \/ Sync_read(t) \/ Sync_wset(t) \/ Sync_upd1(t) \/ Sync_wclr(t) \/ Sync_upd2(t)
    \/ Eeprom_wp_dis(t) \/ Eeprom_xfer(t) \/ Eeprom_poll(t) \/ Eeprom_wp_en(t)
    \/ Eeprom_rd_err(t)
    \/ Store_lock(t) \/ Store_unlock(t)
    \/ Show_lock(t) \/ Show_read(t) \/ Show_unlock(t)
    \/ RegAccess_lock(t) \/ RegAccess_write(t) \/ RegAccess_upd(t) \/ RegAccess_read(t)
    \/ RegAccess_unlock(t)
    \/ WriteRaw_lock(t) \/ WriteRaw_read(t) \/ WriteRaw_write(t) \/ WriteRaw_ioupd(t)
    \/ WriteRaw_unlock(t)
    \/ ReadRaw_lock(t) \/ ReadRaw_read(t) \/ ReadRaw_unlock(t) \/ ReadRaw_eval(t)

AllCalls ==
    WriteRawCalls(ConfiguredChans) \cup ReadRawCalls(ConfiguredChans)
        \cup StoreCalls \cup ShowCalls \cup RegAccessCalls

\* probe on any of the device trees, then one user context making calls
Next ==
    \/ Probe(0, DtTrees)
    \/ Begin(1, AllCalls, MaxCalls)
    \/ \E t \in { 0, 1 } : Step(t)

Spec == Init /\ [][Next]_vars

\* the device tree and the calls of the concurrent specification
DtTreesConc == { DtPll2(0, 0, 0, 6, FALSE, 1, 3, 5, DtChannelsSmall) }

ConcCalls ==
    { [op |-> "write_raw", ch |-> 5, mask |-> "FREQUENCY", val |-> 300000000, val2 |-> 0],
      [op |-> "write_raw", ch |-> 5, mask |-> "FREQUENCY", val |-> 0, val2 |-> 0],
      [op |-> "write_raw", ch |-> 5, mask |-> "RAW", val |-> 0, val2 |-> 0],
      [op |-> "write_raw", ch |-> 5, mask |-> "SCALE", val |-> 0, val2 |-> 0],
      [op |-> "read_raw", ch |-> 5, mask |-> "FREQUENCY"],
      [op |-> "store", address |-> AD9523_SYNC, state |-> "1", len |-> StoreLen],
      [op |-> "store", address |-> AD9523_EEPROM, state |-> "1", len |-> StoreLen],
      [op |-> "show", address |-> 1],
      [op |-> "reg_access", reg |-> 443, writeval |-> 33, rd |-> FALSE],
      [op |-> "reg_access", reg |-> 443, writeval |-> 0, rd |-> TRUE] }

\* probe, then NumThreads user contexts calling into the driver concurrently
NextConc ==
    \/ Probe(0, DtTreesConc)
    \/ \E t \in Users : Begin(t, ConcCalls, MaxConcCalls)
    \/ \E t \in Tasks : Step(t)

SpecConc == Init /\ [][NextConc]_vars

\* the same with scheduling: a context that can take a step is not left
\* waiting forever (a transfer returns, a runnable task is run)
SpecFair == SpecConc /\ \A t \in Tasks : WF_vars(Step(t))

-----------------------------------------------------------------------------
(* Properties                                                              *)

\* user context t has returned from the call recorded in call[t]
UserDone(t) == pc[t] = "idle" /\ call[t].op # "none"
ProbeDone == pc[0] \in { "registered", "failed" }

\* some transfer of the sequence failed; the error of the first that did
Failed(tr) == \E i \in DOMAIN tr : tr[i].r < 0
FirstError(tr) ==
    LET i == CHOOSE j \in DOMAIN tr : tr[j].r < 0 /\ \A k \in 1..(j - 1) : tr[k].r >= 0
    IN  tr[i].r

\* a successful write of v to a
Wrote(a, v) == [k |-> "W", a |-> a, v |-> v, r |-> 0]

IsSyncCall(t) ==
    call[t].op = "store" /\ call[t].address = AD9523_SYNC /\ call[t].state = "1"
IsEepromCall(t) ==
    call[t].op = "store" /\ call[t].address = AD9523_EEPROM /\ call[t].state = "1"
IsFreqApply(t) ==
    call[t].op = "write_raw" /\ call[t].mask = "FREQUENCY"

\* the five transfers of the handshake
SyncSeq(tr) ==
    /\ Len(tr) = 5
    /\ tr[1].k = "R" /\ tr[1].a = AD9523_STATUS_SIGNALS /\ tr[1].r >= 0
    /\ tr[2] = Wrote(AD9523_STATUS_SIGNALS,
                     SetBit(tr[1].v, AD9523_STATUS_SIGNALS_SYNC_MAN_CTRL_BIT))
    /\ tr[3] = Wrote(AD9523_IO_UPDATE, AD9523_IO_UPDATE_EN)
    /\ tr[4] = Wrote(AD9523_STATUS_SIGNALS,
                     ClrBit(tr[1].v, AD9523_STATUS_SIGNALS_SYNC_MAN_CTRL_BIT))
    /\ tr[5] = Wrote(AD9523_IO_UPDATE, AD9523_IO_UPDATE_EN)

\* the transfers of ad9523_setup from its call of ad9523_sync on (the only
\* read of the status-signals register in ad9523_setup is the handshake's)
SyncPart(tr) ==
    IF \E i \in DOMAIN tr : tr[i].k = "R" /\ tr[i].a = AD9523_STATUS_SIGNALS
    THEN LET i == CHOOSE j \in DOMAIN tr :
                    /\ tr[j].k = "R" /\ tr[j].a = AD9523_STATUS_SIGNALS
                    /\ \A k \in 1..(j - 1) : ~(tr[k].k = "R" /\ tr[k].a = AD9523_STATUS_SIGNALS)
         IN  SubSeq(tr, i, Len(tr))
    ELSE <<>>

\* C1: a run of ad9523_sync in which no transfer fails, from ad9523_store or
\* at the end of ad9523_setup, issues exactly five transfers: read of the
\* status-signals register, write of the value read with the manual sync bit
\* set, write to IO-update, write of the value with the bit cleared, write to
\* IO-update.
C1_SyncOrder ==
    /\ \A t \in Users :
         UserDone(t) /\ IsSyncCall(t) /\ ~Failed(trace[t]) => SyncSeq(trace[t])
    /\ pc[0] = "registered" /\ ~Failed(SyncPart(trace[0])) => SyncSeq(SyncPart(trace[0]))

C1_Witness ==
    \E t \in Users :
        /\ UserDone(t) /\ IsSyncCall(t) /\ ~Failed(trace[t])
        /\ Len(trace[t]) = 5 /\ result[t].ret = StoreLen

\* C2: in ad9523_sync (from ad9523_store) and in ad9523_setup no transfer
\* follows a failed transfer, and the call returns the first error.
C2_FailFast ==
    \A t \in Tasks :
        (call[t].op = "probe" \/ IsSyncCall(t)) =>
            /\ \A i \in DOMAIN trace[t] : trace[t][i].r < 0 => i = Len(trace[t])
            /\ (IF t = 0 THEN ProbeDone ELSE UserDone(t)) /\ Failed(trace[t])
                   => result[t].ret = FirstError(trace[t])

\* the polls of the transfer status in a sequence of transfers
Polls(tr) == SelectSeq(tr, LAMBDA e : e.k = "R" /\ e.a = AD9523_EEPROM_DATA_XFER_STATUS)
Busy(e) == Bit(e.v, AD9523_EEPROM_DATA_XFER_IN_PROGRESS_BIT) = 1

\* C3: when all 5 polls of ad9523_store_eeprom see the transfer in progress,
\* the call returns an error that is neither success nor the verify-failed
\* error (-EIO).
C3_TimeoutReported ==
    \A t \in Users :
        (/\ UserDone(t) /\ IsEepromCall(t) /\ ~Failed(trace[t])
         /\ Len(Polls(trace[t])) = 5
         /\ \A i \in 1..5 : Busy(Polls(trace[t])[i]))
        => result[t].ret < 0 /\ result[t].ret # -EIO

\* the transfers of a storage commit with n polls
EepromSeq(tr) ==
    LET n == Len(tr) - 4
    IN  /\ n \in 1..5
        /\ tr[1] = Wrote(AD9523_EEPROM_CTRL1, AD9523_EEPROM_CTRL1_EEPROM_WRITE_PROT_DIS)
        /\ tr[2] = Wrote(AD9523_EEPROM_CTRL2, AD9523_EEPROM_CTRL2_REG2EEPROM)
        /\ \A i \in 3..(n + 2) :
              /\ tr[i].k = "R" /\ tr[i].a = AD9523_EEPROM_DATA_XFER_STATUS
              /\ i < n + 2 => Busy(tr[i])
        /\ Busy(tr[n + 2]) => n = 5
        /\ tr[n + 3] = Wrote(AD9523_EEPROM_CTRL1, 0)
        /\ tr[n + 4].k = "R" /\ tr[n + 4].a = AD9523_EEPROM_ERROR_READBACK

\* C4: a run of ad9523_store_eeprom in which no transfer fails issues the
\* write that lifts the write protection, the write that starts the transfer,
\* 1 to 5 polls of the transfer status (all but the last see the transfer in
\* progress, the last sees it finished unless it is the fifth), the write
\* that restores the write protection and the read of the error readback; it
\* returns -EIO exactly when that read has the error bit set (and no error
\* otherwise).  No run polls more than 5 times.
C4_StoreEepromOrder ==
    \A t \in Users :
        IsEepromCall(t) =>
            /\ Len(Polls(trace[t])) <= 5
            /\ UserDone(t) /\ ~Failed(trace[t]) =>
                 /\ EepromSeq(trace[t])
                 /\ LET last == trace[t][Len(trace[t])]
                    IN  IF Bit(last.v, AD9523_EEPROM_ERROR_READBACK_FAIL_BIT) = 1
                        THEN result[t].ret = -EIO
                        ELSE result[t].ret >= 0

C4_Witness ==
    \E t \in Users :
        /\ UserDone(t) /\ IsEepromCall(t) /\ ~Failed(trace[t])
        /\ Len(Polls(trace[t])) = 5 /\ Busy(Polls(trace[t])[4]) /\ ~Busy(Polls(trace[t])[5])
        /\ result[t].ret = -EIO

\* |src - q * f| for q = src / f truncated, and for q rounded to nearest
ResidualFloor(src, f) == Abs(src - (src \div f) * f)
RoundNearest(src, f) == IF 2 * (src % f) >= f THEN src \div f + 1 ELSE src \div f
ResidualNearest(src, f) == Abs(src - RoundNearest(src, f) * f)

\* C5: after a successful frequency apply on a channel in 4..9 the source
\* recorded for the channel (VCO1 or VCO2) has a residual |src - q * f| no
\* larger than the other source's, with q the truncated or the rounded
\* quotient.
C5_MinResidual ==
    \A t \in Users :
        (/\ UserDone(t) /\ IsFreqApply(t) /\ call[t].ch \in 4..9
         /\ call[t].val > 0 /\ result[t].ret = 0 /\ ~Failed(trace[t]))
        => LET f == call[t].val
               chosen == vco_out_freq[vco_out_map[call[t].ch]]
               other == vco_out_freq[1 - vco_out_map[call[t].ch]]
           IN  \/ ResidualFloor(chosen, f) <= ResidualFloor(other, f)
               \/ ResidualNearest(chosen, f) <= ResidualNearest(other, f)

RoutingRegs == { AD9523_PLL1_OUTPUT_CTRL, AD9523_PLL1_OUTPUT_CHANNEL_CTRL }

\* C6: no step of a frequency apply on a channel in 10..13 reads or writes a
\* routing register or changes an entry of the source map.
C6_NoRoutingAbove9 ==
    [][\A t \in Users :
          (IsFreqApply(t) /\ call[t].ch \in 10..13 /\ pc[t] # "idle")
          => /\ vco_out_map' = vco_out_map
             /\ \A i \in DOMAIN trace'[t] : trace'[t][i].a \notin RoutingRegs]_vars

C6_Witness ==
    \E t \in Users :
        /\ UserDone(t) /\ IsFreqApply(t) /\ call[t].ch \in 10..13
        /\ call[t].val > 0 /\ result[t].ret = 0 /\ Len(trace[t]) = 3

\* the source recorded for channel ch, and the divider in its register
ChanSrc(ch) == vco_out_freq[vco_out_map[ch]]
ChanDiv(ch) == AD9523_CLK_DIST_DIV_REV(regs[AD9523_CHANNEL_CLOCK_DIST(ch)])

\* C7: after a successful frequency apply of f > 0 on a channel in 0..9 the
\* divider field of the channel register decodes to
\* clamp(round(src / f), 1, 1024) for the source src now recorded for the
\* channel; a frequency readback of a channel in 0..9 returns floor(src / d)
\* for the recorded source and the divider d in the register, so the
\* readback that follows the apply returns floor(src / d) for that d.
C7_DividerRoundTrip ==
    \A t \in Users :
        UserDone(t) /\ call[t].op \in { "write_raw", "read_raw" }
            /\ call[t].mask = "FREQUENCY" /\ call[t].ch \in 0..9 =>
            /\ (call[t].op = "write_raw" /\ call[t].val > 0 /\ result[t].ret = 0)
                 => ChanDiv(call[t].ch)
                      = Clamp(RoundNearest(ChanSrc(call[t].ch), call[t].val), 1, 1024)
            /\ (call[t].op = "read_raw" /\ result[t].ret = IIO_VAL_INT)
                 => result[t].val = ChanSrc(call[t].ch) \div ChanDiv(call[t].ch)

\* a readback that follows an apply: the divider is no longer the one
\* ad9523_setup programmed (only a frequency apply changes it)
SetupDiv(ch) ==
    LET i == CHOOSE j \in DOMAIN pdata.channels : pdata.channels[j].channel_num = ch
    IN  pdata.channels[i].channel_divider
C7_Witness ==
    \E t \in Users :
        /\ UserDone(t) /\ call[t].op = "read_raw" /\ call[t].mask = "FREQUENCY"
        /\ call[t].ch \in 4..9 /\ ncalls[t] = 2 /\ result[t].ret = IIO_VAL_INT
        /\ ChanDiv(call[t].ch) # SetupDiv(call[t].ch)
        /\ ChanDiv(call[t].ch) > 1
        /\ result[t].val = ChanSrc(call[t].ch) \div ChanDiv(call[t].ch)

\* C8: ad9523_write_raw returns an error whenever one of its transfers failed.
C8_ErrorsReported ==
    \A t \in Users :
        UserDone(t) /\ call[t].op = "write_raw" /\ Failed(trace[t]) => result[t].ret < 0

\* the labels between mutex_lock and mutex_unlock, and those of mutex_lock
LockedLabels ==
    { "wr_read", "vmap_read", "vmap_write", "wr_write", "wr_ioupd", "wr_unlock",
      "rr_read", "rr_unlock", "sh_read", "sh_unlock",
      "ra_write", "ra_upd", "ra_read", "ra_unlock",
      "sy_read", "sy_wset", "sy_upd1", "sy_wclr", "sy_upd2",
      "ee_wp_dis", "ee_xfer", "ee_poll", "ee_wp_en", "ee_rd_err", "st_unlock" }
LockLabels == { "wr_lock", "rr_lock", "sh_lock", "ra_lock", "st_lock" }
Holders == { t \in Users : pc[t] \in LockedLabels }

\* C9: at most one call is between mutex_lock and mutex_unlock at a time
\* and it is the one the lock records; every transfer is issued by the one
\* call in its locked section, so no transfer of another call falls between
\* two transfers of a locked sequence.
C9_MutualExclusion ==
    /\ [](Cardinality(Holders) <= 1 /\ \A t \in Holders : lock = t)
    /\ [][\A t \in Users : Len(trace'[t]) > Len(trace[t]) => Holders = { t }]_vars

C9_Witness ==
    \E t \in Users, u \in Users :
        /\ t # u
        /\ pc[t] \in LockedLabels /\ Len(trace[t]) >= 2
        /\ pc[u] \in LockLabels

\* C10: when ad9523_calc_dividers failed, probe has returned -EINVAL without
\* a single transfer: ad9523_setup never ran and no register was written.
C10_NoSetupAfterFailedSolver ==
    calc_ret = "fail" =>
        /\ pc[0] = "failed" /\ result[0].ret = -EINVAL
        /\ trace[0] = <<>>
        /\ regs = [a \in RegAddrs |-> 0]

C10_Witness ==
    calc_ret = "fail" /\ pc[0] = "failed" /\ result[0].ret = -EINVAL

-----------------------------------------------------------------------------
(* ad9523_calc_dividers, statement by statement                            *)

\* the oscillator and the two VCO tap targets (Hz) the solver is run on
SolveVcxo == {999, 30720000, 100000000, 122880000, 135000000, 163840000, 175000000,
              200000000, 300000000, 600000000}
SolveM1 == {0, 500000000, 600000000, 743750000, 750001000, 983040000, 990000000, 1000000000}
SolveM2 == {0, 600000000, 700000000, 737280000, 750000000, 1000001000}

\* the locals of ad9523_calc_dividers
CalcLocals(vcxo_freq, m1_freq, m2_freq) ==
    [vcxo_freq |-> vcxo_freq, m1_freq |-> m1_freq, m2_freq |-> m2_freq,
     m_freq |-> 0, vco_freq |-> 0, m |-> 0, m1 |-> 0, m2 |-> 0,
     n2 |-> 0, r2 |-> 0, fpfd |-> 0, iter |-> 0]

\* the PLL2 properties of a device tree without target frequencies
StaticPlans ==
    { DtPll2(0, 0, a, b, FALSE, r, m1, m2, << >>) :
        a \in 0..4, b \in {2, 3, 4, 5, 6, 7, 63, 64}, r \in {0, 1, 31, 32},
        m1 \in {3, 6}, m2 \in {2, 5} }

\* what the PLL2 part of ad9523_parse_dt is run on: target frequencies for
\* ad9523_calc_dividers, or the dividers themselves
SolveCalls ==
    { [op |-> "calc_dividers", vcxo_freq |-> x, m1_freq |-> f1, m2_freq |-> f2] :
        x \in SolveVcxo, f1 \in SolveM1, f2 \in SolveM2 }
    \cup { [op |-> "static", dt |-> d] : d \in StaticPlans }

InitSolve ==
    /\ \E c \in SolveCalls :
          /\ call = [t \in Tasks |-> IF t = 0 THEN c ELSE NoCall]
          /\ pc = [t \in Tasks |-> IF t # 0 THEN "idle"
                                   ELSE IF c.op = "static" THEN "pd_static" ELSE "cd_entry"]
    /\ loc = [t \in Tasks |-> LocZero]
    /\ result = [t \in Tasks |-> Res(0)]
    /\ trace = [t \in Tasks |-> <<>>]
    /\ ncalls = [t \in Tasks |-> 0]
    /\ lock = 0
    /\ regs = [a \in RegAddrs |-> 0]
    /\ vco_out_freq = [m \in 0..(AD9523_NUM_CLK_SRC - 1) |-> 0]
    /\ vco_out_map = [ch \in 0..(AD9523_NUM_CHAN_ALT_CLK_SRC - 1) |-> 0]
    /\ is_enabled = [ch \in 0..(AD9523_NUM_CHAN - 1) |-> FALSE]
    /\ pdata = PdataZero
    /\ calc_ret = "none"
    /\ oob = FALSE
    /\ first = NoFirst

\* ad9523_parse_dt with m1_freq == 0 && m2_freq == 0: the dividers are read
\* from the device tree
ParseDt_static(t) ==
    /\ pc[t] = "pd_static"
    /\ pdata' = ParseDtPdata(call[t].dt, [ret |-> 0])
    /\ Goto(t, "pd_check", loc[t])
    /\ UNCHANGED <<call, first, trace, ncalls, lock, regs, vco_out_freq, vco_out_map, is_enabled,
                   calc_ret, oob>>

\* the range checks of ad9523_parse_dt, made whatever ad9523_calc_dividers
\* returned
ParseDt_check(t) ==
    /\ pc[t] \in {"pd_check", "cd_done"}
    /\ Goto(t, IF ParseDtValid(pdata) THEN "pd_ok" ELSE "pd_fail", loc[t])
    /\ UNCHANGED <<call, first, trace, ncalls, lock, regs, vco_out_freq, vco_out_map, is_enabled,
                   pdata, calc_ret, oob>>

\* the divisions by 1000 and the choice of m_freq
Calc_entry(t) ==
    /\ pc[t] = "cd_entry"
    /\ LET m1_freq == call[t].m1_freq \div 1000
           m2_freq == call[t].m2_freq \div 1000
           vcxo_freq == call[t].vcxo_freq \div 1000
           q == CalcLocals(vcxo_freq, m1_freq, m2_freq)
       IN  Goto(t, "cd_for", [q EXCEPT !.m_freq = IF m1_freq # 0 THEN m1_freq ELSE m2_freq,
                                       !.m = 3])
    /\ UNCHANGED <<call, first, trace, ncalls, lock, regs, vco_out_freq, vco_out_map, is_enabled,
                   pdata, calc_ret, oob>>

\* one pass of  for (m = 3; m <= 5; m++)
Calc_for(t) ==
    /\ pc[t] = "cd_for"
    /\ LET q == loc[t]
           vco_freq == q.m_freq * q.m
       IN  IF AD9523_VCO_FREQ_MIN <= vco_freq /\ AD9523_VCO_FREQ_MAX >= vco_freq
           THEN Goto(t, "cd_m", [q EXCEPT !.vco_freq = vco_freq])
           ELSE IF q.m + 1 <= 5
           THEN Goto(t, "cd_for", [q EXCEPT !.vco_freq = vco_freq, !.m = q.m + 1])
           ELSE Goto(t, "cd_m", [q EXCEPT !.vco_freq = vco_freq, !.m = q.m + 1])
    /\ UNCHANGED <<call, first, trace, ncalls, lock, regs, vco_out_freq, vco_out_map, is_enabled,
                   pdata, calc_ret, oob>>

\* if (m == 6) return -EINVAL;  then the choice of m1 and m2
Calc_m(t) ==
    /\ pc[t] = "cd_m"
    /\ LET q == loc[t]
       IN  IF q.m = 6 THEN Return(t, "cd_done", Res(-EINVAL))
           ELSE IF q.m1_freq # 0
           THEN IF q.m2_freq # 0
                THEN LET m2 == q.vco_freq \div q.m2_freq
                     IN  IF m2 < 3 \/ m2 > 5 \/ q.vco_freq % q.m2_freq > 1
                         THEN Return(t, "cd_done", Res(-EINVAL))
                         ELSE Goto(t, "cd_approx", [q EXCEPT !.m1 = q.m, !.m2 = m2])
                ELSE Goto(t, "cd_approx", [q EXCEPT !.m1 = q.m, !.m2 = 3])
           ELSE Goto(t, "cd_approx", [q EXCEPT !.m1 = 3, !.m2 = q.m])
    /\ UNCHANGED <<call, first, trace, ncalls, lock, regs, vco_out_freq, vco_out_map, is_enabled,
                   pdata, calc_ret, oob>>

\* the two rational approximations, the doubler decision and fpfd; with an
\* oscillator below 1 kHz the denominator handed to the approximation and the
\* divisions by r2[0] are zero: the call does not come back
Calc_approx(t) ==
    /\ pc[t] = "cd_approx"
    /\ LET q == loc[t]
       IN  IF q.vcxo_freq = 0
           THEN Goto(t, "cd_fault", q) /\ UNCHANGED pdata
           ELSE LET nr0 == rational_best_approximation(q.vco_freq, q.vcxo_freq, 255, 31)
                    nr1 == rational_best_approximation(q.vco_freq, q.vcxo_freq * 2, 255, 31)
                    exact == q.vco_freq = (q.vcxo_freq * nr0[1]) \div nr0[2]
                    useDoubler ==
                        /\ ~exact
                        /\ Abs(q.vco_freq \div nr0[1] - q.vcxo_freq \div nr0[2])
                             > Abs((q.vco_freq \div nr1[1]) \div 2 - q.vcxo_freq \div nr1[2])
                    nr == IF useDoubler THEN nr1 ELSE nr0
                    fpfd == (q.vcxo_freq * (IF useDoubler THEN 2 ELSE 1)) \div nr[2]
                IN  /\ Goto(t, "cd_loop", [q EXCEPT !.n2 = nr[1], !.r2 = nr[2], !.fpfd = fpfd])
                    /\ pdata' = [pdata EXCEPT !.pll2_freq_doubler_en = useDoubler]
    /\ UNCHANGED <<call, first, trace, ncalls, lock, regs, vco_out_freq, vco_out_map, is_enabled,
                   calc_ret, oob>>

\* faulty variant: the loop test without the divider test
CalcLoopCond_FpfdOnly(fpfd, n) == fpfd > 259000

\* while (fpfd > 259000 || !ad9523_pll2_valid_div(n2[0]))
CalcLoopCond(fpfd, n) == fpfd > 259000 \/ ~ad9523_pll2_valid_div(n)

\* one test of the while loop and, when it holds, one pass of its body
Calc_loop(t) ==
    /\ pc[t] = "cd_loop"
    /\ LET q == loc[t]
       IN  IF CalcLoopCond(q.fpfd, q.n2)
           THEN Goto(t, "cd_loop", [q EXCEPT !.fpfd = q.fpfd \div 2, !.n2 = q.n2 * 2,
                                             !.r2 = q.r2 * 2, !.iter = q.iter + 1])
           ELSE Goto(t, "cd_store", q)
    /\ UNCHANGED <<call, first, trace, ncalls, lock, regs, vco_out_freq, vco_out_map, is_enabled,
                   pdata, calc_ret, oob>>

\* the stores into pdata and  return 0
Calc_store(t) ==
    /\ pc[t] = "cd_store"
    /\ LET q == loc[t]
       IN  pdata' = [pdata EXCEPT !.pll2_r2_div = q.r2,
                                  !.pll2_vco_div_m1 = q.m1,
                                  !.pll2_vco_div_m2 = q.m2,
                                  !.pll2_ndiv_a_cnt = q.n2 % 4,
                                  !.pll2_ndiv_b_cnt = q.n2 \div 4]
    /\ Return(t, "cd_done", Res(0))
    /\ UNCHANGED <<call, first, trace, ncalls, lock, regs, vco_out_freq, vco_out_map, is_enabled,
                   calc_ret, oob>>

NextSolve ==
    \/ Calc_entry(0)
    \/ Calc_for(0)
    \/ Calc_m(0)
    \/ Calc_approx(0)
    \/ Calc_loop(0)
    \/ Calc_store(0)
    \/ ParseDt_static(0)
    \/ ParseDt_check(0)

\* the function runs on until it returns: its steps are weakly fair
SpecSolve == InitSolve /\ [][NextSolve]_vars /\ WF_vars(NextSolve)

\* the call has returned 0 and pdata holds its plan
SolveOk == pc[0] = "cd_done" /\ result[0].ret = 0
SolveFailed == pc[0] = "cd_done" /\ result[0].ret = -EINVAL

\* the feedback divider N of the plan in pdata
PlanN == 4 * pdata.pll2_ndiv_b_cnt + pdata.pll2_ndiv_a_cnt

\* the plan in pdata is the one the solver operator computes in one go
SolveAgrees ==
    SolveOk =>
        LET c == ad9523_calc_dividers(call[0].vcxo_freq, call[0].m1_freq, call[0].m2_freq)
        IN  /\ c.ret = 0
            /\ c.r2 = pdata.pll2_r2_div /\ c.m1 = pdata.pll2_vco_div_m1
            /\ c.m2 = pdata.pll2_vco_div_m2 /\ c.a = pdata.pll2_ndiv_a_cnt
            /\ c.b = pdata.pll2_ndiv_b_cnt /\ c.doubler = pdata.pll2_freq_doubler_en

PlanABValid(a, b) ==
    /\ b \in 3..63
    /\ a \in 0..3
    /\ b = 3 => a = 0
    /\ b = 4 => a <= 1
    /\ b \in {5, 6} => a <= 2

\* C12: the plan of a successful solve, with feedbackA = N mod 4 and
\* feedbackB = N div 4, and every static plan the range checks accept have
\* feedbackB in 3..63 and feedbackA within the ceiling that B sets (0 for
\* B = 3, 1 for B = 4, 2 for B in {5, 6}, 3 otherwise).
C12_PlanABValid ==
    (SolveOk \/ pc[0] = "pd_ok")
        => PlanABValid(pdata.pll2_ndiv_a_cnt, pdata.pll2_ndiv_b_cnt)

\* a solved plan at the ceiling for B = 4: N = 17
C12_Witness ==
    /\ SolveOk /\ pdata.pll2_ndiv_b_cnt = 4 /\ pdata.pll2_ndiv_a_cnt = 1
    /\ call[0].vcxo_freq = 175000000 /\ call[0].m1_freq = 743750000

\* C13: with both tap targets non-zero (and a VCO multiplier found) solve
\* succeeds only if the VCO frequency divided by the tap2 target, both in kHz,
\* is an integer in 3..5 with zero remainder, and then m2 is that quotient;
\* for every other pair it fails with the error and leaves pdata untouched.
C13_M2Exact ==
    (/\ pc[0] = "cd_done" /\ call[0].op = "calc_dividers"
     /\ call[0].m1_freq \div 1000 # 0 /\ call[0].m2_freq \div 1000 # 0
     /\ CalcM(call[0].m1_freq \div 1000) # 6)
    => LET vco_khz == (call[0].m1_freq \div 1000) * CalcM(call[0].m1_freq \div 1000)
           tap2_khz == call[0].m2_freq \div 1000
       IN  IF vco_khz \div tap2_khz \in 3..5 /\ vco_khz % tap2_khz = 0
           THEN result[0].ret = 0 /\ pdata.pll2_vco_div_m2 = vco_khz \div tap2_khz
           ELSE result[0].ret = -EINVAL /\ pdata = PdataZero

-----------------------------------------------------------------------------
(* Phase, repeated applies, the lock, setup's channel writes, the cache    *)

IsPhaseApply(t) == call[t].op = "write_raw" /\ call[t].mask = "PHASE"

\* the request in micro-radians and the 6-bit phase field of channel ch
PhaseMicroRad(t) == call[t].val * 1000000 + call[t].val2
ChanPhase(ch) == AD9523_CLK_DIST_DIV_PHASE_REV(regs[AD9523_CHANNEL_CLOCK_DIST(ch)])

\* C14 as stated: after a successful phase apply the phase field holds
\* clamp(round(phaseMicroRad * divider / 6283185), 0, 63).
C14_PhaseCodeTwoPi ==
    \A t \in Users :
        UserDone(t) /\ IsPhaseApply(t) /\ result[t].ret = 0 =>
            LET S == 6283185
                x == PhaseMicroRad(t)
                d == ChanDiv(call[t].ch)
                q == IF x < 0 THEN 0
                     ELSE (x \div S) * d + DivRoundClosest((x % S) * d, S)
            IN  ChanPhase(call[t].ch) = Clamp(q, 0, 63)

\* C14 (amended): after a successful phase apply the phase field holds
\* clamp(trunc(phaseMicroRad * divider / 3141592), 0, 63): the divisor is pi
\* in micro-radians, the quotient is truncated, and the product is the 32-bit
\* signed one; the field is within 0..63 for every request.
C14_PhaseCode ==
    \A t \in Users :
        UserDone(t) /\ IsPhaseApply(t) /\ result[t].ret = 0 =>
            LET x == PhaseMicroRad(t)
                d == ChanDiv(call[t].ch)
            IN  /\ ChanPhase(call[t].ch) = Clamp(CDiv(MulWrap32(x, d), 3141592), 0, 63)
                /\ ChanPhase(call[t].ch) \in 0..63

\* a quarter turn applied to channel 5 at divider 6 is stored as code 3
C14_Witness ==
    \E t \in Users :
        /\ UserDone(t) /\ IsPhaseApply(t) /\ result[t].ret = 0
        /\ call[t].ch = 5 /\ call[t].val = 1 /\ call[t].val2 = 570796
        /\ ChanDiv(5) = 6 /\ ChanPhase(5) = 3

\* the device tree of the repeated-apply specification
DtTreesRepeat == { DtPll2(983040000, 737280000, 0, 0, FALSE, 0, 0, 0, DtChannelsFull) }

\* the registers and cached fields an ad9523_write_raw call on channel ch
\* can change
ApplyState(ch) ==
    << regs[AD9523_CHANNEL_CLOCK_DIST(ch)], regs[AD9523_PLL1_OUTPUT_CTRL],
       regs[AD9523_PLL1_OUTPUT_CHANNEL_CTRL], vco_out_map, is_enabled[ch] >>

\* user context t calls ad9523_write_raw again with the arguments of the call
\* that has just returned 0; what that call left and issued is remembered
Repeat(t) ==
    /\ pc[0] = "registered"
    /\ pc[t] = "idle"
    /\ ncalls[t] = 1
    /\ call[t].op = "write_raw"
    /\ result[t].ret = 0
    /\ first' = [state |-> ApplyState(call[t].ch), trace |-> trace[t]]
    /\ pc' = [pc EXCEPT ![t] = Entry(call[t])]
    /\ loc' = [loc EXCEPT ![t] = LocZero]
    /\ trace' = [trace EXCEPT ![t] = <<>>]
    /\ ncalls' = [ncalls EXCEPT ![t] = @ + 1]
    /\ UNCHANGED <<call, result, lock, regs, vco_out_freq, vco_out_map, is_enabled,
                   pdata, calc_ret, oob>>

\* probe, one ad9523_write_raw call, and the same call once more
NextRepeat ==
    \/ Probe(0, DtTreesRepeat)
    \/ Begin(1, WriteRawCalls(ConfiguredChans), 1)
    \/ Repeat(1)
    \/ Setup_write(0) \/ Setup_rd_id(0) \/ Setup_wr_id(0) \/ Setup_rd_verify(0)
    \/ Setup_restore_id(0) \/ Setup_chan(0) \/ Setup_unused(0)
    \/ Sync_read(0) \/ Sync_wset(0) \/ Sync_upd1(0) \/ Sync_wclr(0) \/ Sync_upd2(0)
    \/ \E t \in { 0, 1 } : Vmap_read(t) \/ Vmap_write(t)
    \/ WriteRaw_lock(1) \/ WriteRaw_read(1) \/ WriteRaw_write(1) \/ WriteRaw_ioupd(1)
    \/ WriteRaw_unlock(1)

SpecRepeat == Init /\ [][NextRepeat]_vars

\* the repeated call has returned 0
RepeatDone == ncalls[1] = 2 /\ UserDone(1) /\ first # NoFirst /\ result[1].ret = 0

\* C15: a second successful ad9523_write_raw call with the arguments of a
\* first, successful one leaves the channel register, both routing registers,
\* the source map and the enabled flag as the first call left them, and
\* issues the transfers of the first call again (same kind and address, in
\* the same order) and no other.
C15_RepeatIdempotent ==
    RepeatDone =>
        /\ ApplyState(call[1].ch) = first.state
        /\ Len(trace[1]) = Len(first.trace)
        /\ \A i \in DOMAIN trace[1] : /\ trace[1][i].k = first.trace[i].k
                                      /\ trace[1][i].a = first.trace[i].a

\* C16: a context that is in no call does not hold the lock, whatever the
\* call it left returned (success, a failed transfer at any step, a rate
\* <= 0, an unsupported mask); the lock is free when no call is in progress;
\* a caller waiting in mutex_lock eventually holds the lock.
C16_LockReleased ==
    /\ [](\A t \in Users : pc[t] = "idle" => lock # t)
    /\ []((\A t \in Users : pc[t] = "idle") => lock = 0)
    /\ \A t \in Users : (pc[t] \in LockLabels) ~> (lock = t)

\* a call has come back with the error of a failed transfer and the other
\* caller, who was waiting, now holds the lock
C16_Witness ==
    \E t \in Users, u \in Users :
        /\ t # u
        /\ UserDone(t) /\ Failed(trace[t]) /\ result[t].ret < 0
        /\ lock = u /\ pc[u] \in LockedLabels

\* one pass of the body of the while loop of ad9523_calc_dividers
LoopPass == pc[0] = "cd_loop" /\ pc'[0] = "cd_loop"

\* C17: once ad9523_calc_dividers (oscillator >= 1000 Hz) is at its while
\* loop it leaves it; each pass halves fpfd and doubles N and R, so N / R is
\* kept; on exit fpfd <= 259000 and N >= 16 with N outside {18, 19, 23, 27}.
C17_LoopTerminates ==
    /\ [][LoopPass => /\ loc'[0].fpfd = loc[0].fpfd \div 2
                      /\ loc'[0].n2 = 2 * loc[0].n2
                      /\ loc'[0].r2 = 2 * loc[0].r2
                      /\ loc'[0].n2 * loc[0].r2 = loc[0].n2 * loc'[0].r2]_vars
    /\ [](pc[0] = "cd_store" => /\ loc[0].fpfd <= 259000
                                /\ loc[0].n2 >= 16
                                /\ loc[0].n2 \notin {18, 19, 23, 27})
    /\ (pc[0] = "cd_loop" /\ call[0].vcxo_freq >= 1000) ~> (pc[0] = "cd_store")

\* the loop has been left after two passes: 600 MHz / 1 and N = 5 became
\* 150 MHz and N = 20
C17_Witness ==
    /\ pc[0] = "cd_store" /\ loc[0].iter = 2
    /\ loc[0].fpfd = 150000 /\ loc[0].n2 = 20 /\ loc[0].r2 = 4

\* the positions in setup's transfers of the writes to channel n's register
\* that come before position k
ChanWrites(tr, n, k) ==
    { i \in 1..(k - 1) : tr[i].k = "W" /\ tr[i].a = AD9523_CHANNEL_CLOCK_DIST(n) }

\* the entries of pdata->channels[] for channel n
ChanEntries(n) ==
    { i \in 1..Len(pdata.channels) : pdata.channels[i].channel_num = n }

\* C18: when ad9523_setup has succeeded, the register of every channel
\* 0..13 was written, once and successfully, before the IO_UPDATE that
\* precedes the synchronize handshake: with the power-down bit set for a
\* channel without configuration entry, and with the power-down bit equal to
\* output_dis for a configured one; an entry with index >= 14 caused no
\* write.
C18_AllChannelsWritten ==
    pc[0] = "registered" =>
        LET tr == trace[0]
            commit == Len(tr) - 5
        IN  /\ tr[commit] = Wrote(AD9523_IO_UPDATE, AD9523_IO_UPDATE_EN)
            /\ \A n \in 0..13 :
                 /\ Cardinality(ChanWrites(tr, n, commit)) = Max(1, Cardinality(ChanEntries(n)))
                 /\ ChanWrites(tr, n, Len(tr) + 1) = ChanWrites(tr, n, commit)
                 /\ \A i \in ChanWrites(tr, n, commit) :
                      /\ tr[i].r = 0
                      /\ Bit(tr[i].v, AD9523_CLK_DIST_PWR_DOWN_EN_BIT) = 1
                           <=> IF ChanEntries(n) = {} THEN TRUE
                               ELSE \E e \in ChanEntries(n) : pdata.channels[e].output_dis
            /\ \A e \in 1..Len(pdata.channels) :
                 pdata.channels[e].channel_num >= 14 =>
                    ChanWrites(tr, pdata.channels[e].channel_num, Len(tr) + 1) = {}

\* setup has succeeded on the tree with channels 0, 5, 8 (output disabled),
\* 10 and 14
C18_Witness ==
    /\ pc[0] = "registered" /\ pdata.channels = DtChannelsFull
    /\ Bit(regs[AD9523_CHANNEL_CLOCK_DIST(8)], AD9523_CLK_DIST_PWR_DOWN_EN_BIT) = 1
    /\ Bit(regs[AD9523_CHANNEL_CLOCK_DIST(5)], AD9523_CLK_DIST_PWR_DOWN_EN_BIT) = 0
    /\ regs[AD9523_CHANNEL_CLOCK_DIST(13)]
         = BitOr(AD9523_CLK_DIST_DRIVER_MODE(TRISTATE), AD9523_CLK_DIST_PWR_DOWN_EN)
    /\ ncalls[1] = 0

\* the cache agrees with the device: the source recorded for a channel in
\* 0..9 is an alternative one iff the channel's select bit is set, and a
\* channel is recorded enabled iff its power-down bit is clear
CacheAgrees ==
    /\ \A ch \in 0..9 :
         vco_out_map[ch] # AD9523_VCO1 <=> Bit(regs[VcoMapReg(ch)], VcoMapBit(ch)) = 1
    /\ \A ch \in 0..13 :
         is_enabled[ch]
            <=> Bit(regs[AD9523_CHANNEL_CLOCK_DIST(ch)], AD9523_CLK_DIST_PWR_DOWN_EN_BIT) = 0

\* C19: after probe and any ad9523_write_raw calls, failed ones included,
\* whenever no call is in progress the cache agrees with the device.
C19_CacheAgrees ==
    (pc[0] = "registered" /\ \A t \in Users : pc[t] = "idle") => CacheAgrees

\* C20: ad9523_write_raw and ad9523_read_raw index vco_out_map only within
\* 0..9; for a channel in 10..13 the frequency they work with is that of
\* VCO1: an apply programs clamp(round(vco_out_freq[VCO1] / f), 1, 1024) and
\* a readback returns vco_out_freq[VCO1] / divider.
C20_MapInBounds ==
    /\ ~oob
    /\ \A t \in Users :
         UserDone(t) /\ call[t].op \in { "write_raw", "read_raw" }
            /\ call[t].mask = "FREQUENCY" /\ call[t].ch \in 10..13 =>
            /\ (call[t].op = "write_raw" /\ call[t].val > 0 /\ result[t].ret = 0)
                 => ChanDiv(call[t].ch)
                      = Clamp(RoundNearest(vco_out_freq[AD9523_VCO1], call[t].val), 1, 1024)
            /\ (call[t].op = "read_raw" /\ result[t].ret = IIO_VAL_INT)
                 => result[t].val = vco_out_freq[AD9523_VCO1] \div ChanDiv(call[t].ch)

-----------------------------------------------------------------------------
(* C21: a frequency readback concurrent with a frequency apply             *)

\* the source ad9523_setup recorded for channel ch (ad9523_vco_out_map with
\* the entry's use_alt_clock_src), and the frequency of that source
SetupMap(ch) ==
    LET i == CHOOSE j \in DOMAIN pdata.channels : pdata.channels[j].channel_num = ch
    IN  IF ~pdata.channels[i].use_alt_clock_src THEN AD9523_VCO1
        ELSE IF ch \in 0..3 THEN AD9523_VCXO ELSE AD9523_VCO2
SetupSrc(ch) == vco_out_freq[SetupMap(ch)]

\* user contexts t and u have each made their only call, no other context
\* has called: t a successful frequency readback, u a frequency apply, on
\* the same channel in 0..9
ReadAndApplyDone(t, u) ==
    /\ t # u /\ UserDone(t) /\ UserDone(u)
    /\ ncalls[t] = 1 /\ ncalls[u] = 1
    /\ \A w \in Users \ { t, u } : ncalls[w] = 0
    /\ call[t].op = "read_raw" /\ call[t].mask = "FREQUENCY"
    /\ result[t].ret = IIO_VAL_INT
    /\ IsFreqApply(u) /\ call[u].ch = call[t].ch /\ call[t].ch \in 0..9

\* C21: a frequency readback that runs concurrently with a frequency apply
\* on the same channel returns source / divider for the (source, divider)
\* pair of the channel before the apply (the one ad9523_setup programmed) or
\* for the pair after it (the one the channel holds once both calls are
\* over), never for the source of one pair and the divider of the other.
C21_ReadbackSnapshot ==
    \A t, u \in Users :
        ReadAndApplyDone(t, u) =>
            result[t].val \in { SetupSrc(call[t].ch) \div SetupDiv(call[t].ch),
                                ChanSrc(call[t].ch) \div ChanDiv(call[t].ch) }

-----------------------------------------------------------------------------
(* C22: the frame of a source change                                       *)

\* the select bit of channel c in its routing register, from the bit
\* definitions of AD9523_PLL1_OUTPUT_CTRL and AD9523_PLL1_OUTPUT_CHANNEL_CTRL
SelectReg(c) ==
    IF c \in { 4, 5, 6 } THEN AD9523_PLL1_OUTPUT_CTRL ELSE AD9523_PLL1_OUTPUT_CHANNEL_CTRL
SelectBit(c) ==
    CASE c = 0 -> 0 [] c = 1 -> 1 [] c = 2 -> 2 [] c = 3 -> 3
      [] c = 4 -> 5 [] c = 5 -> 6 [] c = 6 -> 7
      [] c = 7 -> 4 [] c = 8 -> 5 [] c = 9 -> 6

LastXfer(tr) == tr[Len(tr)]

\* what a step of ad9523_vco_out_map for channel c by task t may touch
VmapFrame(t) ==
    LET c == CurCh(t)
        a == SelectReg(c)
        e == LastXfer(trace'[t])
    IN  /\ c \in 0..9
        /\ Len(trace'[t]) = Len(trace[t]) + 1
        /\ e.a = a
        /\ \A ch \in (0..9) \ { c } : vco_out_map'[ch] = vco_out_map[ch]
        /\ \A x \in RegAddrs \ { a } : regs'[x] = regs[x]
        /\ pc[t] = "vmap_read" => e.k = "R" /\ regs' = regs
        /\ pc[t] = "vmap_write" =>
             LET rd == LastXfer(trace[t])
             IN  /\ e.k = "W"
                 /\ rd.k = "R" /\ rd.a = a /\ rd.r >= 0
                 /\ e.v \in 0..255
                 /\ \A b \in (0..7) \ { SelectBit(c) } : Bit(e.v, b) = Bit(rd.r, b)
                 /\ Bit(e.v, SelectBit(c)) = (IF loc[t].out # 0 THEN 1 ELSE 0)
                 /\ regs'[a] = IF e.r = 0 THEN e.v ELSE regs[a]

\* C22: every step of ad9523_vco_out_map for a channel c in 0..9 accesses
\* only c's routing register; the value it writes has every bit other than
\* c's select bit equal to the value read at the start of the
\* read-modify-write; no other register changes and the source-map entries
\* of all other channels are unchanged.
C22_RoutingFrame ==
    [][\A t \in Tasks :
          (pc[t] \in { "vmap_read", "vmap_write" } /\ pc'[t] # pc[t]) => VmapFrame(t)]_vars

\* a frequency apply changed the select bit of its channel in a routing
\* register that had another bit set
C22_Witness ==
    \E t \in Users :
        /\ UserDone(t) /\ IsFreqApply(t) /\ call[t].ch \in 0..9 /\ result[t].ret = 0
        /\ Len(trace[t]) >= 3
        /\ LET rd == trace[t][2]
               wr == trace[t][3]
               a == SelectReg(call[t].ch)
           IN  /\ rd.k = "R" /\ rd.a = a /\ rd.r >= 0
               /\ wr.k = "W" /\ wr.a = a /\ wr.r = 0
               /\ wr.v # rd.r
               /\ \E b \in (0..7) \ { SelectBit(call[t].ch) } : Bit(rd.r, b) = 1
               /\ regs[a] = wr.v

=============================================================================
